---- MODULE Spec2Model ----
(***************************************************************************)
(* Model of the Linda relay (src/server.js): the username index (Record    *)
(* Store), its fuzzy index and SQLite mirror, the GunDB feed listeners,    *)
(* the /api/register write path and the per-user notification queues.      *)
(***************************************************************************)
EXTENDS Integers, Sequences, FiniteSets, TLC

VARIABLES
    now,            \* Date.now(), in ms
    usernameIndex,  \* Map searchKey -> userData, in insertion order
    fuseIndex,      \* whether a Fuse index exists, and the array it was built from
    lastSyncTime,   \* time of the last accepted addUsernameToIndex
    dbUsernames,    \* rows of the SQLite table usernames, in rowid order
    dbFailing,      \* whether SQLite statements fail at present
    task,           \* the feed handler suspended at an await (pc "idle": none)
    rebuilds,       \* number of rebuildFuseIndex calls so far
    mirrorWrites,   \* number of saveUsernameToDB calls so far
    lastRebuildAt,  \* time of the last rebuildFuseIndex call, -1 if none
    lastOp,         \* the last handler that ran to completion, and its answer
    userNotificationQueues, \* Map userPub -> array of notifications
    enqueued,       \* number of queueNotificationForUser calls so far
    lastDrain,      \* the user and the result of getAndClearNotificationsForUser,
                    \* when that was the last queue operation
    maxDelivered,   \* the highest notification number a drain has returned
    sinceDrain,     \* per user, the pushes since the user's last drain
    sockets,        \* per socket id: "new", "open" (connected) or "closed"
    onlineUsers,    \* Map userPub -> socket.id
    roomPresence,   \* Map roomId -> [roomType, users, lastSeen]
    putBy,          \* per socket id, the <<roomId, userPub>> memberships that
                    \* are there because a handler of that socket added them
    emitted,        \* the messages the last socket handler emitted
    protocolStatsCache, \* the statistics snapshot
    dbStats,        \* the protocol_stats table: Map stat_type -> stat_value
    statWrites,     \* the saveProtocolStatToDB calls of the last statistics handler
    lastStats,      \* the status and the stats of the last statistics response
    refresh,        \* the promise of getProtocolStatisticsFromGunDB and the
                    \* variables of its closure
    lastSearch,     \* the query and the response of the last GET /api/search
    partialResult,  \* the value of the last getProtocolStatisticsFromGunDB call
                    \* that was settled by its timer
    pendingLoads,   \* the db.all callbacks of initDatabase that have not run
                    \* yet, with the rows their SELECT read
    joinedAs        \* per socket id, the userPubs it has sent join for

vars == <<now, usernameIndex, fuseIndex, lastSyncTime, dbUsernames, task,
          rebuilds, mirrorWrites, lastRebuildAt, lastOp, dbFailing,
          userNotificationQueues, enqueued, lastDrain, maxDelivered,
          sinceDrain, sockets, onlineUsers, roomPresence, putBy, emitted,
          protocolStatsCache, dbStats, statWrites, lastStats, refresh,
          lastSearch, partialResult, pendingLoads, joinedAs>>

registryVars == <<now, usernameIndex, fuseIndex, lastSyncTime, dbUsernames,
                  task, rebuilds, mirrorWrites, lastRebuildAt, lastOp,
                  dbFailing>>

queueVars == <<userNotificationQueues, enqueued, lastDrain, maxDelivered, sinceDrain>>

presenceVars == <<sockets, onlineUsers, roomPresence, putBy, emitted, joinedAs>>

statsVars == <<protocolStatsCache, dbStats, statWrites, lastStats, refresh,
               partialResult, pendingLoads>>

\* what the handlers of the registry leave alone
outsideRegistry == <<queueVars, presenceVars, statsVars, lastSearch>>

\* what the handlers of the notification queues leave alone
outsideQueues == <<registryVars, presenceVars, statsVars, lastSearch>>

\* what the socket handlers leave alone
outsidePresence == <<registryVars, queueVars, statsVars, lastSearch, joinedAs>>

\* what the statistics handlers leave alone, the queues apart
outsideStats == <<registryVars, presenceVars, lastSearch, partialResult,
                  pendingLoads>>

\* null and undefined
NULL == "null"

\* a missing (undefined) timestamp; 0 is falsy just as undefined is
NoTime == 0

\* the last queue operation was no drain
NoDrain == [user |-> NULL, limit |-> "none", held |-> 0, items |-> <<>>]

----------------------------------------------------------------------------
(* Program constants *)

SYNC_COOLDOWN == 10000

MAX_NOTIFICATIONS_PER_USER == 100

MAX_USERNAME_RESULTS == 20

DayInMs == 24 * 60 * 60 * 1000

ActivityReadTimeout == 2000

EpubReadTimeout == 3000

UsersEpubReadTimeout == 2000

AliasMinPubLength == 10

EpubMinLength == 10

NOTIFICATION_TYPES == {"cache_updated", "stats_updated", "system_alert"}

----------------------------------------------------------------------------
(* Bounds and input sets *)

\* clock steps of TickMs the model follows the server for
MaxTicks == 2

\* notifications pushed in one behaviour of the queue
MaxEnqueues == 150

\* callbacks of the collection reads of one statistics refresh
MaxCallbacks == 5

\* counter bumps of the statistics handlers
MaxBumps == 2

\* quiet periods of the length of the cooldown
MaxCooldowns == 2

\* rebuilds of the fuzzy index up to the last restart
MaxRebuilds == 4

\* fuzzy matches of one search
MaxFuzzy == 2

\* one clock step
TickMs == SYNC_COOLDOWN \div 2

\* the clock at start-up; large enough for a timestamp one day old to exist
StartTime == DayInMs + SYNC_COOLDOWN

\* the clock stops here
\* the end of time for the feed of one subject: each quiet period may follow
\* a point read that ran into its timeout
FeedHorizon == StartTime + MaxCooldowns * (SYNC_COOLDOWN + EpubReadTimeout)

MaxTime == StartTime + MaxTicks * TickMs

Pubs == {"pubK1-0123456789", "pubK2-0123456789"}

Usernames == {"al", "Al", "bo"}

Epubs == {"epubE1-0123456789"}

\* activity timestamps the feed may carry: none, one that is a day old at the
\* start, a fresh one
FeedTimes == {NoTime, StartTime - DayInMs, StartTime}

----------------------------------------------------------------------------
(* JavaScript helpers *)

\* truthiness of a string-valued expression (null, undefined and "" are falsy)
Truthy_Always(v) == TRUE

Truthy(v) == v # NULL /\ v # ""

\* String.prototype.toLowerCase on the strings of the model
ToLowerCase(s) ==
    CASE s = "Al" -> "al"
      [] s = "Bo" -> "bo"
      [] OTHER -> s

\* String.prototype.length on the strings of the model
StrLen(s) ==
    CASE s \in {"al", "Al", "bo", "Bo"} -> 2
      [] s = "short" -> 5
      [] s \in Pubs \cup Epubs -> 16
      [] OTHER -> 0

(* Map: a sequence of [key, val] entries in insertion order *)
MapHas(m, k) == \E i \in 1..Len(m) : m[i].key = k

\* the value at k, for a k the map has
MapGet(m, k) == m[CHOOSE i \in 1..Len(m) : m[i].key = k].val

MapSet(m, k, v) ==
    IF MapHas(m, k)
    THEN [i \in 1..Len(m) |-> IF m[i].key = k THEN [key |-> k, val |-> v] ELSE m[i]]
    ELSE Append(m, [key |-> k, val |-> v])

MapDelete(m, k) == SelectSeq(m, LAMBDA e : e.key # k)

MapValues(m) == [i \in 1..Len(m) |-> m[i].val]

\* the first, in iteration order, of the entries whose indices are in found,
\* where the loop stops at its break; 0 if there is none
FirstIndex(found) ==
    IF found = {} THEN 0 ELSE CHOOSE i \in found : \A j \in found : i <= j

----------------------------------------------------------------------------
(* Username index: rebuildFuseIndex, saveUsernameToDB, addUsernameToIndex *)

UserData(userId, username, displayName, userPub, pub, epub, lastSeen) ==
    [userId |-> userId, username |-> username, displayName |-> displayName,
     userPub |-> userPub, pub |-> pub, epub |-> epub, lastSeen |-> lastSeen]

\* new Fuse(Array.from(usernameIndex.values()), fuseOptions)
RebuildFuseIndex(idx) == [built |-> TRUE, items |-> MapValues(idx)]

\* the row INSERT OR REPLACE writes for usernameData
DbRow(usernameData, t) ==
    [username |-> usernameData.username,
     display_name |-> usernameData.displayName,
     user_pub |-> usernameData.userPub,
     epub |-> usernameData.epub,
     last_seen |-> IF usernameData.lastSeen # NoTime THEN usernameData.lastSeen ELSE t]

\* INSERT OR REPLACE on the UNIQUE column username: the conflicting row goes,
\* the new row gets a fresh rowid (rows are kept in rowid order)
SaveUsernameToDB(rows, usernameData, t) ==
    Append(SelectSeq(rows, LAMBDA r : r.username # usernameData.username),
           DbRow(usernameData, t))

\* the early return of addUsernameToIndex
\* addUsernameToIndex without its cooldown
CooldownActive_Never(t) == FALSE

CooldownActive(t) == t - lastSyncTime < SYNC_COOLDOWN

\* usernameIndex.set(userData.username.toLowerCase(), userData)
\* usernameIndex.set taking every record for a new subject
UpsertIndex_AsNew(idx, userData) ==
    Append(idx, [key |-> ToLowerCase(userData.username), val |-> userData])

UpsertIndex(idx, userData) == MapSet(idx, ToLowerCase(userData.username), userData)

\* addUsernameToIndex(userData), called when the index is idx (the caller may
\* have deleted an entry just before)
\* addUsernameToIndex undoing its upsert when the mirror write fails
AddUsernameToIndex_FailsWithMirror(idx, userData) ==
    /\ lastSyncTime' = now
    /\ usernameIndex' = IF dbFailing THEN idx ELSE UpsertIndex(idx, userData)
    /\ fuseIndex' = RebuildFuseIndex(usernameIndex')
    /\ rebuilds' = rebuilds + 1
    /\ lastRebuildAt' = now
    /\ mirrorWrites' = mirrorWrites + 1
    /\ dbUsernames' = IF dbFailing
                      THEN dbUsernames
                      ELSE SaveUsernameToDB(dbUsernames, userData, now)

AddUsernameToIndex(idx, userData) ==
    IF CooldownActive(now)
    THEN /\ usernameIndex' = idx
         /\ UNCHANGED <<fuseIndex, lastSyncTime, dbUsernames, rebuilds,
                        mirrorWrites, lastRebuildAt>>
    ELSE /\ lastSyncTime' = now
         /\ usernameIndex' = UpsertIndex(idx, userData)
         /\ fuseIndex' = RebuildFuseIndex(usernameIndex')
         /\ rebuilds' = rebuilds + 1
         /\ lastRebuildAt' = now
         /\ mirrorWrites' = mirrorWrites + 1
         /\ dbUsernames' = IF dbFailing
                           THEN dbUsernames
                           ELSE SaveUsernameToDB(dbUsernames, userData, now)

\* what a handler leaves in lastOp when it has run to completion
Op(route, pub, username, displayName, status, oldUsername, outcome) ==
    [route |-> route, pub |-> pub, username |-> username,
     displayName |-> displayName, status |-> status, oldUsername |-> oldUsername,
     outcome |-> outcome]

\* what became of the handler's call of addUsernameToIndex
Outcome(called) ==
    IF ~called THEN "none" ELSE IF CooldownActive(now) THEN "cooldown" ELSE "synced"

\* a feed handler has run to completion on an event for pub
FeedOp(pub, called) == Op("feed", pub, NULL, NULL, 0, NULL, Outcome(called))

----------------------------------------------------------------------------
(* POST /api/register *)

\* the entry of another searchKey that belongs to pub: 0 if there is none
OldUsernameIndex(idx, pub, username) ==
    FirstIndex({i \in DOMAIN idx : /\ idx[i].val.userPub = pub
                                   /\ idx[i].key # ToLowerCase(username)})

\* the epub the handler carries over into the new record
ExistingEpub(idx, pub, username) ==
    IF /\ MapHas(idx, ToLowerCase(username))
       /\ MapGet(idx, ToLowerCase(username)).userPub = pub
    THEN MapGet(idx, ToLowerCase(username)).epub
    ELSE NULL

Register(username, displayName, pub) ==
    /\ IF ~Truthy(username) \/ ~Truthy(pub)
       THEN /\ lastOp' = Op("register", NULL, NULL, NULL, 400, NULL, "none")
            /\ UNCHANGED <<usernameIndex, fuseIndex, lastSyncTime, dbUsernames,
                           rebuilds, mirrorWrites, lastRebuildAt>>
       ELSE LET i == OldUsernameIndex(usernameIndex, pub, username)
                oldUsername == IF i = 0 THEN NULL ELSE usernameIndex[i].key
                idx == IF i = 0 THEN usernameIndex
                       ELSE MapDelete(usernameIndex, oldUsername)
                existingEpub == ExistingEpub(idx, pub, username)
            IN  /\ AddUsernameToIndex(idx,
                     UserData(pub, username,
                              IF Truthy(displayName) THEN displayName ELSE username,
                              pub, pub, existingEpub, now))
                /\ lastOp' = Op("register", pub, username, displayName, 200,
                                oldUsername, Outcome(TRUE))
    /\ UNCHANGED <<now, task, dbFailing>>
    /\ UNCHANGED outsideRegistry

----------------------------------------------------------------------------
(* syncWithGunDB: the feed listeners.  A handler that awaits a point read   *)
(* is held in task until the read resolves.  A handler reads no shared      *)
(* state and writes nothing before its last await, so handlers that         *)
(* overlap act as the same handlers run in the order they resume (one       *)
(* slot), and the arguments of the event are bound where the handler uses   *)
(* them.                                                                    *)

Task(listener, pc, deadline) == [listener |-> listener, pc |-> pc, deadline |-> deadline]

Idle == Task("none", "idle", 0)

\* a handler suspends at an await, or ends, without having changed anything
NoSync == UNCHANGED <<now, usernameIndex, fuseIndex, lastSyncTime, dbUsernames,
                      rebuilds, mirrorWrites, lastRebuildAt, dbFailing>>

\* a handler ends with addUsernameToIndex(userData) on the index idx
EndHandlerAdd(idx, userData) ==
    /\ lastOp' = FeedOp(userData.userPub, TRUE)
    /\ AddUsernameToIndex(idx, userData)
    /\ UNCHANGED <<now, dbFailing>>

\* new Promise(resolve => { setTimeout(() => resolve(null), ms); ...once(data =>
\* { clearTimeout(timeout); resolve(data || null) }) }): the pending read ends
\* with what the feed answers, or with null when its timer fires
\* a read without its timer: only the feed's answer ends it
ReadResolves_NoTimer(isNull, timedOut) == ~timedOut /\ now <= task.deadline

ReadResolves(isNull, timedOut) ==
    IF timedOut THEN now = task.deadline /\ isNull ELSE now <= task.deadline

\* the usernames listener: only users active in the last 24 hours
IsLive(t, lastSeen) == t - lastSeen < DayInMs

\* gun.get("usernames").map().on((userPub, username) => ...), up to the first await
UsernamesEvent(userPub, username) ==
    /\ task.pc = "idle"
    /\ Truthy(userPub) /\ Truthy(username)
    /\ task' = Task("usernames", "activity", now + ActivityReadTimeout)
    /\ NoSync
    /\ UNCHANGED lastOp
    /\ UNCHANGED outsideRegistry

\* what gun.get(userPub).once may deliver: nothing, or a node with or
\* without lastSeen
ActivityDatas ==
    {[exists |-> FALSE, lastSeen |-> NoTime]} \cup
    {[exists |-> TRUE, lastSeen |-> ts] : ts \in FeedTimes}

\* the usernames listener from its activity read to its epub read
UsernamesActivity(data, timedOut) ==
    /\ task.listener = "usernames" /\ task.pc = "activity"
    /\ ReadResolves(~data.exists, timedOut)
    /\ IF data.exists /\ data.lastSeen # NoTime /\ IsLive(now, data.lastSeen)
       THEN /\ task' = Task("usernames", "epub", now + EpubReadTimeout)
            /\ UNCHANGED lastOp
       ELSE /\ task' = Idle
            /\ lastOp' = FeedOp(NULL, FALSE)
    /\ NoSync
    /\ UNCHANGED outsideRegistry

\* the usernames listener after its epub read
UsernamesEpub(userPub, username, epub, timedOut) ==
    /\ task.listener = "usernames" /\ task.pc = "epub"
    /\ Truthy(userPub) /\ Truthy(username)
    /\ ReadResolves(epub = NULL, timedOut)
    /\ task' = Idle
    /\ EndHandlerAdd(usernameIndex,
           UserData(userPub, username, username, userPub, NULL, epub, now))
    /\ UNCHANGED outsideRegistry

(* The alias value, as the pieces it is made of; replace() removes the     *)
(* first occurrence of a piece.                                            *)
RemoveFirst(seq, piece) ==
    IF \E i \in 1..Len(seq) : seq[i] = piece
    THEN LET i == CHOOSE k \in 1..Len(seq) :
                      seq[k] = piece /\ \A j \in 1..(k - 1) : seq[j] # piece
         IN  SubSeq(seq, 1, i - 1) \o SubSeq(seq, i + 1, Len(seq))
    ELSE seq

\* aliasData.replace("~@", "").replace(username, "").replace(/^~/, "")
AliasUserPub(aliasData, username) ==
    LET a == RemoveFirst(aliasData, "~@")
        b == RemoveFirst(a, username)
        c == IF Len(b) > 0 /\ b[1] = "~" THEN Tail(b) ELSE b
    IN  IF Len(c) = 0 THEN "" ELSE c[1]

\* the alias listener goes on to its epub read
AliasAccepted(aliasData, username) ==
    /\ Len(aliasData) > 0 /\ Truthy(username)
    /\ Truthy(AliasUserPub(aliasData, username))
    /\ StrLen(AliasUserPub(aliasData, username)) > AliasMinPubLength

\* gun.get("~@").map().on((aliasData, username) => ...), up to the await
AliasEvent(aliasData, username) ==
    /\ task.pc = "idle"
    /\ Len(aliasData) > 0 /\ Truthy(username)
    /\ IF AliasAccepted(aliasData, username)
       THEN /\ task' = Task("alias", "epub", now + EpubReadTimeout)
            /\ UNCHANGED lastOp
       ELSE /\ UNCHANGED task
            /\ lastOp' = FeedOp(NULL, FALSE)
    /\ NoSync
    /\ UNCHANGED outsideRegistry

\* the alias listener after its epub read
AliasEpub(aliasData, username, epub, timedOut) ==
    /\ task.listener = "alias" /\ task.pc = "epub"
    /\ AliasAccepted(aliasData, username)
    /\ ReadResolves(epub = NULL, timedOut)
    /\ task' = Idle
    /\ LET userPub == AliasUserPub(aliasData, username)
       IN  EndHandlerAdd(usernameIndex,
               UserData(userPub, username, username, userPub, NULL, epub, now))
    /\ UNCHANGED outsideRegistry

\* gun.get("users").map().on((userData, userId) => ...), up to the first await
UsersEvent(userData, userId) ==
    /\ task.pc = "idle"
    /\ Truthy(userData.alias)
    /\ Truthy(userId)
    /\ task' = Task("users", "epub1", now + UsersEpubReadTimeout)
    /\ NoSync
    /\ UNCHANGED lastOp
    /\ UNCHANGED outsideRegistry

\* the users listener after an epub read: a second read if the first gave
\* nothing, addUsernameToIndex otherwise
UsersEpub(userData, userId, epub, timedOut) ==
    /\ task.listener = "users" /\ task.pc \in {"epub1", "epub2"}
    /\ Truthy(userData.alias)
    /\ Truthy(userId)
    /\ ReadResolves(epub = NULL, timedOut)
    /\ IF task.pc = "epub1" /\ ~Truthy(epub)
       THEN /\ task' = Task("users", "epub2", now + UsersEpubReadTimeout)
            /\ NoSync
            /\ UNCHANGED lastOp
       ELSE /\ task' = Idle
            /\ EndHandlerAdd(usernameIndex,
                   UserData(userId, userData.alias,
                            IF Truthy(userData.displayName) THEN userData.displayName
                            ELSE userData.alias,
                            IF Truthy(userData.pub) THEN userData.pub ELSE userId,
                            NULL, epub,
                            IF userData.lastSeen # NoTime THEN userData.lastSeen
                            ELSE now))
    /\ UNCHANGED outsideRegistry

\* the first entry of the index that belongs to userPub: 0 if there is none
FindByUserPub(idx, userPub) ==
    FirstIndex({i \in DOMAIN idx : idx[i].val.userPub = userPub})

\* gun.get("displayNames").map().on((displayData, username) => ...)
DisplayNameEvent(displayData, username) ==
    /\ Truthy(displayData.userPub)
    /\ Truthy(username)
    /\ LET i == FindByUserPub(usernameIndex, displayData.userPub)
           changed == i # 0 /\ usernameIndex[i].key # ToLowerCase(username)
           idx == IF changed THEN MapDelete(usernameIndex, usernameIndex[i].key)
                  ELSE usernameIndex
       IN  EndHandlerAdd(idx,
               UserData(displayData.userPub, username, username, displayData.userPub,
                        displayData.userPub,
                        IF i # 0 THEN usernameIndex[i].val.epub ELSE NULL, now))
    /\ UNCHANGED task
    /\ UNCHANGED outsideRegistry

\* gun.get(userPub).get("epub").on((epubData) => ...) of startEpubListener; the
\* subscription for userPub exists once the feed has delivered its users node
EpubEvent(userPub, epubData) ==
    /\ Truthy(userPub)
    /\ Truthy(epubData) /\ StrLen(epubData) > EpubMinLength
    /\ LET i == FindByUserPub(usernameIndex, userPub)
       IN  IF i # 0
           THEN EndHandlerAdd(usernameIndex,
                    [usernameIndex[i].val EXCEPT !.epub = epubData, !.lastSeen = now])
           ELSE /\ lastOp' = FeedOp(userPub, FALSE)
                /\ NoSync
    /\ UNCHANGED task
    /\ UNCHANGED outsideRegistry

\* a quiet period of the length of the cooldown, no handler being suspended
CooldownPasses ==
    /\ task = Idle
    /\ now + SYNC_COOLDOWN <= FeedHorizon
    /\ now' = now + SYNC_COOLDOWN
    /\ UNCHANGED <<usernameIndex, fuseIndex, lastSyncTime, dbUsernames, task,
                   rebuilds, mirrorWrites, lastRebuildAt, lastOp, dbFailing>>
    /\ UNCHANGED outsideRegistry

----------------------------------------------------------------------------
(* SQLite: statements start or stop failing (disk full, file locked) *)

SetDbFailing(failing) ==
    /\ dbFailing # failing
    /\ dbFailing' = failing
    /\ UNCHANGED <<now, usernameIndex, fuseIndex, lastSyncTime, dbUsernames, task,
                   rebuilds, mirrorWrites, lastRebuildAt, lastOp>>
    /\ UNCHANGED outsideRegistry

----------------------------------------------------------------------------
(* The clock *)

\* time passes; a pending timer is never passed over
Tick ==
    /\ now + TickMs <= MaxTime
    /\ task.pc # "idle" => now + TickMs <= task.deadline
    /\ refresh.pc # "idle" /\ ~refresh.timerFired => now + TickMs <= refresh.deadline
    /\ now' = now + TickMs
    /\ UNCHANGED <<usernameIndex, fuseIndex, lastSyncTime, dbUsernames, task,
                   rebuilds, mirrorWrites, lastRebuildAt, lastOp, dbFailing>>
    /\ UNCHANGED outsideRegistry

\* time passes up to the pending timer, off the TickMs grid.  Spec keeps to
\* the grid, where a pending read ends with the feed's answer (null included)
\* before its timer fires; a specification that follows a read to its
\* timeout adds this step.
TickToDeadline ==
    /\ task.pc # "idle"
    /\ now < task.deadline
    /\ task.deadline < now + TickMs
    /\ task.deadline <= MaxTime
    /\ now' = task.deadline
    /\ UNCHANGED <<usernameIndex, fuseIndex, lastSyncTime, dbUsernames, task,
                   rebuilds, mirrorWrites, lastRebuildAt, lastOp, dbFailing>>
    /\ UNCHANGED outsideRegistry

----------------------------------------------------------------------------
(* Notification queues: queueNotificationForUser,                           *)
(* getAndClearNotificationsForUser                                          *)

\* notification.data when the caller gave none: {}
EmptyData == 0

\* queueNotificationForUser storing the type it is given and stamping every
\* item itself
NormalizedNotification_AsGiven(notification, t) ==
    [type |-> notification.type,
     data |-> IF notification.data.def THEN notification.data.val ELSE 0,
     timestamp |-> t]

\* the item queueNotificationForUser stores for notification; data and
\* timestamp are given as [def, val] and [num, val]
NormalizedNotification(notification, t) ==
    [type |-> IF notification.type \in NOTIFICATION_TYPES
              THEN notification.type ELSE "system_alert",
     data |-> IF notification.data.def THEN notification.data.val ELSE EmptyData,
     timestamp |-> IF notification.timestamp.num
                   THEN notification.timestamp.val ELSE t]

\* queueNotificationForUser without its splice
TrimQueue_NoTrim(queue) == queue

\* queue.splice(0, queue.length - MAX_NOTIFICATIONS_PER_USER) when over the cap
TrimQueue(queue) ==
    IF Len(queue) > MAX_NOTIFICATIONS_PER_USER
    THEN SubSeq(queue, Len(queue) - MAX_NOTIFICATIONS_PER_USER + 1, Len(queue))
    ELSE queue

\* a push that lands in every queue there is
PushNotification_ToAll(queues, userPub, notification, t) ==
    LET own == IF MapHas(queues, userPub) THEN queues ELSE MapSet(queues, userPub, <<>>)
    IN  [i \in DOMAIN own |->
            [key |-> own[i].key,
             val |-> TrimQueue(Append(own[i].val,
                                      NormalizedNotification(notification, t)))]]

\* the queues after queueNotificationForUser(userPub, notification)
PushNotification(queues, userPub, notification, t) ==
    LET q == IF MapHas(queues, userPub) THEN MapGet(queues, userPub) ELSE <<>>
    IN  MapSet(queues, userPub,
               TrimQueue(Append(q, NormalizedNotification(notification, t))))

\* queueNotificationForUser(userPub, notification), for a notification object
QueueNotificationForUser(userPub, notification) ==
    /\ IF ~Truthy(userPub)
       THEN UNCHANGED <<userNotificationQueues, sinceDrain>>
       ELSE /\ userNotificationQueues' =
                  PushNotification(userNotificationQueues, userPub, notification, now)
            /\ sinceDrain' = [p \in Pubs |-> IF p = userPub THEN sinceDrain[p] + 1
                                              ELSE sinceDrain[p]]
    /\ enqueued' = enqueued + 1
    /\ lastDrain' = NoDrain
    /\ UNCHANGED maxDelivered
    /\ UNCHANGED outsideQueues

\* the limit argument: undefined, NaN or a number
NoLimit == [kind |-> "undefined", val |-> 0]

NaNLimit == [kind |-> "NaN", val |-> 0]

NumLimit(n) == [kind |-> "number", val |-> n]

\* getAndClearNotificationsForUser slicing from the front of the queue
DrainResult_FromFront(queue, limit) ==
    IF limit.kind = "number" /\ limit.val > 0 /\ Len(queue) > limit.val
    THEN SubSeq(queue, 1, limit.val)
    ELSE queue

\* what getAndClearNotificationsForUser returns for queue and limit
DrainResult(queue, limit) ==
    IF limit.kind = "number" /\ limit.val > 0 /\ Len(queue) > limit.val
    THEN SubSeq(queue, Len(queue) - limit.val + 1, Len(queue))
    ELSE queue

\* getAndClearNotificationsForUser without its userNotificationQueues.set
ClearedQueue_Kept(queue) == queue

\* the queue getAndClearNotificationsForUser leaves behind
ClearedQueue(queue) == <<>>

MaxData(items) ==
    IF Len(items) = 0 THEN 0
    ELSE CHOOSE m \in {items[i].data : i \in 1..Len(items)} :
             \A i \in 1..Len(items) : items[i].data <= m

\* what a drain of userPub leaves in lastDrain: the limit it was given (the
\* number, or what it was instead), the length of the queue it found and
\* the list it returned
Drained(userPub, limit, queue, notifications) ==
    [user |-> userPub,
     limit |-> IF limit.kind = "number" THEN ToString(limit.val) ELSE limit.kind,
     held |-> Len(queue),
     items |-> notifications]

\* getAndClearNotificationsForUser(userPub, limit)
GetAndClearNotificationsForUser(userPub, limit) ==
    /\ IF ~MapHas(userNotificationQueues, userPub)
       THEN /\ lastDrain' = Drained(userPub, limit, <<>>, <<>>)
            /\ UNCHANGED <<userNotificationQueues, maxDelivered>>
       ELSE LET queue == MapGet(userNotificationQueues, userPub)
                notifications == DrainResult(queue, limit)
            IN  /\ userNotificationQueues' =
                       MapSet(userNotificationQueues, userPub, ClearedQueue(queue))
                /\ lastDrain' = Drained(userPub, limit, queue, notifications)
                /\ maxDelivered' = IF MaxData(notifications) > maxDelivered
                                   THEN MaxData(notifications) ELSE maxDelivered
    /\ sinceDrain' = [p \in Pubs |-> IF p = userPub THEN 0 ELSE sinceDrain[p]]
    /\ UNCHANGED enqueued
    /\ UNCHANGED outsideQueues

----------------------------------------------------------------------------
(* GET /api/notifications/:userPub *)

\* parseInt(limitParam, 10) on the query strings of the model: the digits
\* the string starts with, after its sign, or NaN
ParseInt(limitParam) ==
    CASE limitParam = "0" -> NumLimit(0)
      [] limitParam = "-1" -> NumLimit(-1)
      [] limitParam = "2" -> NumLimit(2)
      [] limitParam = "2x" -> NumLimit(2)
      [] limitParam = "7" -> NumLimit(7)
      [] OTHER -> NaNLimit

\* limitParam ? parseInt(limitParam, 10) : undefined
ParsedLimit(limitParam) ==
    IF Truthy(limitParam) THEN ParseInt(limitParam) ELSE NoLimit

\* the limit the handler passes on
RequestLimit(limitParam) ==
    LET parsedLimit == ParsedLimit(limitParam)
    IN  IF parsedLimit.kind = "number" /\ parsedLimit.val > 0
        THEN parsedLimit ELSE NoLimit

GetNotifications(userPub, limitParam) ==
    IF ~Truthy(userPub)
    THEN /\ lastDrain' = NoDrain
         /\ UNCHANGED <<userNotificationQueues, enqueued, maxDelivered, sinceDrain>>
         /\ UNCHANGED outsideQueues
    ELSE GetAndClearNotificationsForUser(userPub, RequestLimit(limitParam))

----------------------------------------------------------------------------
(* Socket.IO presence: io.on("connection"), join, joinRoom, leaveRoom,      *)
(* updateRoomPresence, disconnect.  The Socket.IO rooms a socket joins      *)
(* only route the emitted messages and are left out; emitted holds what     *)
(* the last handler sent.                                                   *)

\* the socket.id of the connections
SocketIds == {"s1", "s2"}

RoomIds == {"r1", "r2"}

RoomTypes == {"group"}

\* a room of roomPresence
Room(roomType, users, lastSeen) ==
    [roomType |-> roomType, users |-> users, lastSeen |-> lastSeen]

\* a handler that forgets room.lastSeen.set
SetLastSeen_Skip(lastSeen, userPub, t) == lastSeen

\* room.lastSeen.set(userPub, Date.now())
SetLastSeen(lastSeen, userPub, t) == MapSet(lastSeen, userPub, t)

\* a roomPresence message that leaves the lastSeen map out
RoomPresenceMsg_NoLastSeen(roomId, roomType, room) ==
    [event |-> "roomPresence", roomId |-> roomId, roomType |-> roomType,
     userPubs |-> room.users, onlineCount |-> Cardinality(room.users),
     lastSeen |-> <<>>, userPub |-> NULL, isOnline |-> FALSE]

\* a roomPresence message for room as it stands
RoomPresenceMsg(roomId, roomType, room) ==
    [event |-> "roomPresence", roomId |-> roomId, roomType |-> roomType,
     userPubs |-> room.users, onlineCount |-> Cardinality(room.users),
     lastSeen |-> room.lastSeen, userPub |-> NULL, isOnline |-> FALSE]

\* a userPresence message
UserPresenceMsg(userPub, isOnline) ==
    [event |-> "userPresence", roomId |-> NULL, roomType |-> NULL,
     userPubs |-> {}, onlineCount |-> 0, lastSeen |-> <<>>,
     userPub |-> userPub, isOnline |-> isOnline]

\* the memberships no socket answers for any more once userPub is out of roomId
Released(roomId, userPub) ==
    [id \in SocketIds |-> putBy[id] \ {<<roomId, userPub>>}]

\* the socket id has added userPub to roomId
Claimed(id, roomId, userPub) ==
    [i \in SocketIds |-> IF i = id THEN putBy[i] \cup {<<roomId, userPub>>}
                         ELSE putBy[i] \ {<<roomId, userPub>>}]

\* io.on("connection", (socket) => ...)
Connection(id) ==
    /\ sockets[id] = "new"
    /\ sockets' = [sockets EXCEPT ![id] = "open"]
    /\ emitted' = <<>>
    /\ UNCHANGED <<onlineUsers, roomPresence, putBy>>
    /\ UNCHANGED outsidePresence

\* socket.on("join", (data) => ...)
Join(id, data) ==
    /\ sockets[id] = "open"
    /\ onlineUsers' = MapSet(onlineUsers, data.userPub, id)
    /\ emitted' = <<UserPresenceMsg(data.userPub, TRUE)>>
    /\ joinedAs' = [joinedAs EXCEPT ![id] = @ \cup {data.userPub}]
    /\ UNCHANGED <<sockets, roomPresence, putBy>>
    /\ UNCHANGED <<registryVars, queueVars, statsVars, lastSearch>>

\* socket.on("joinRoom", (data) => ...)
JoinRoom(id, data) ==
    /\ sockets[id] = "open"
    /\ IF ~Truthy(data.roomId) \/ ~Truthy(data.roomType) \/ ~Truthy(data.userPub)
       THEN /\ emitted' = <<>>
            /\ UNCHANGED <<roomPresence, putBy>>
       ELSE LET found == IF MapHas(roomPresence, data.roomId)
                         THEN MapGet(roomPresence, data.roomId)
                         ELSE Room(data.roomType, {}, <<>>)
                room == Room(found.roomType, found.users \cup {data.userPub},
                             SetLastSeen(found.lastSeen, data.userPub, now))
            IN  /\ roomPresence' = MapSet(roomPresence, data.roomId, room)
                /\ putBy' = Claimed(id, data.roomId, data.userPub)
                /\ emitted' = <<RoomPresenceMsg(data.roomId, data.roomType, room)>>
    /\ UNCHANGED <<sockets, onlineUsers>>
    /\ UNCHANGED outsidePresence

\* socket.on("leaveRoom", (data) => ...)
LeaveRoom(id, data) ==
    /\ sockets[id] = "open"
    /\ IF Truthy(data.roomId) /\ Truthy(data.userPub)
          /\ MapHas(roomPresence, data.roomId)
       THEN LET found == MapGet(roomPresence, data.roomId)
                room == Room(found.roomType, found.users \ {data.userPub},
                             SetLastSeen(found.lastSeen, data.userPub, now))
            IN  /\ roomPresence' = MapSet(roomPresence, data.roomId, room)
                /\ putBy' = Released(data.roomId, data.userPub)
                /\ emitted' = <<RoomPresenceMsg(data.roomId, room.roomType, room)>>
       ELSE /\ emitted' = <<>>
            /\ UNCHANGED <<roomPresence, putBy>>
    /\ UNCHANGED <<sockets, onlineUsers>>
    /\ UNCHANGED outsidePresence

\* socket.on("updateRoomPresence", (data) => ...)
UpdateRoomPresence(id, data) ==
    /\ sockets[id] = "open"
    /\ IF Truthy(data.roomId) /\ Truthy(data.userPub)
          /\ MapHas(roomPresence, data.roomId)
       THEN LET found == MapGet(roomPresence, data.roomId)
                users == CASE data.status = "online" -> found.users \cup {data.userPub}
                           [] data.status = "offline" -> found.users \ {data.userPub}
                           [] OTHER -> found.users
                room == Room(found.roomType, users,
                             SetLastSeen(found.lastSeen, data.userPub, now))
            IN  /\ roomPresence' = MapSet(roomPresence, data.roomId, room)
                /\ putBy' = CASE data.status = "online" ->
                                   IF data.userPub \in found.users THEN putBy
                                   ELSE Claimed(id, data.roomId, data.userPub)
                              [] data.status = "offline" ->
                                   Released(data.roomId, data.userPub)
                              [] OTHER -> putBy
                /\ emitted' = <<RoomPresenceMsg(data.roomId, room.roomType, room)>>
       ELSE /\ emitted' = <<>>
            /\ UNCHANGED <<roomPresence, putBy>>
    /\ UNCHANGED <<sockets, onlineUsers>>
    /\ UNCHANGED outsidePresence

\* the first entry of onlineUsers that holds the socket id: 0 if there is none
OnlineIndexOf(id) == FirstIndex({i \in DOMAIN onlineUsers : onlineUsers[i].val = id})

\* roomPresence once the disconnect handler has taken userPub out of every room
RoomsWithout(userPub) ==
    [i \in DOMAIN roomPresence |->
        IF userPub \in roomPresence[i].val.users
        THEN [key |-> roomPresence[i].key,
              val |-> Room(roomPresence[i].val.roomType,
                           roomPresence[i].val.users \ {userPub},
                           SetLastSeen(roomPresence[i].val.lastSeen, userPub, now))]
        ELSE roomPresence[i]]

\* the roomPresence messages of the disconnect handler, in the order of the rooms
DisconnectMsgs(userPub) ==
    LET rooms == RoomsWithout(userPub)
        hit == SelectSeq([i \in DOMAIN roomPresence |-> i],
                         LAMBDA i : userPub \in roomPresence[i].val.users)
    IN  [k \in DOMAIN hit |->
            RoomPresenceMsg(rooms[hit[k]].key, rooms[hit[k]].val.roomType,
                            rooms[hit[k]].val)]

\* socket.on("disconnect", () => ...)
Disconnect(id) ==
    /\ sockets[id] = "open"
    /\ sockets' = [sockets EXCEPT ![id] = "closed"]
    /\ LET i == OnlineIndexOf(id)
       IN  IF i = 0
           THEN /\ emitted' = <<>>
                /\ UNCHANGED <<onlineUsers, roomPresence, putBy>>
           ELSE LET userPub == onlineUsers[i].key
                IN  /\ onlineUsers' = MapDelete(onlineUsers, userPub)
                    /\ roomPresence' = RoomsWithout(userPub)
                    /\ putBy' = [s \in SocketIds |->
                                   {m \in putBy[s] : m[2] # userPub}]
                    /\ emitted' = Append(DisconnectMsgs(userPub),
                                         UserPresenceMsg(userPub, FALSE))
    /\ UNCHANGED outsidePresence

\* isUserOnline(userPub), the isOnline of GET /api/presence/:userPub
IsUserOnline(userPub) == MapHas(onlineUsers, userPub)

----------------------------------------------------------------------------
(* Protocol statistics: the snapshot, POST /api/stats/notify,               *)
(* POST /api/notify/message, POST /api/notify/conversation,                 *)
(* GET /api/stats/protocol, the periodic save                               *)

\* the snapshot with the given counters, in the order of its fields
StatsCache(messages, groups, tokenRooms, publicRooms, conversations, contacts, at) ==
    [totalMessages |-> messages, totalGroups |-> groups,
     totalTokenRooms |-> tokenRooms, totalPublicRooms |-> publicRooms,
     totalConversations |-> conversations, totalContacts |-> contacts,
     lastUpdated |-> at]

\* the counters the handlers bump and save
StatTypes == {"totalMessages", "totalGroups", "totalTokenRooms", "totalPublicRooms",
              "totalConversations"}

\* protocolStatsCache[statType]
StatOf(cache, statType) ==
    CASE statType = "totalMessages" -> cache.totalMessages
      [] statType = "totalGroups" -> cache.totalGroups
      [] statType = "totalTokenRooms" -> cache.totalTokenRooms
      [] statType = "totalPublicRooms" -> cache.totalPublicRooms
      [] statType = "totalConversations" -> cache.totalConversations
      [] statType = "totalContacts" -> cache.totalContacts

\* protocolStatsCache[statType]++
Bumped(cache, statType) ==
    CASE statType = "totalMessages" -> [cache EXCEPT !.totalMessages = @ + 1]
      [] statType = "totalGroups" -> [cache EXCEPT !.totalGroups = @ + 1]
      [] statType = "totalTokenRooms" -> [cache EXCEPT !.totalTokenRooms = @ + 1]
      [] statType = "totalPublicRooms" -> [cache EXCEPT !.totalPublicRooms = @ + 1]
      [] statType = "totalConversations" -> [cache EXCEPT !.totalConversations = @ + 1]

\* the sum of the counters
Bumps(cache) ==
    cache.totalMessages + cache.totalGroups + cache.totalTokenRooms
        + cache.totalPublicRooms + cache.totalConversations

\* a saveProtocolStatToDB call
StatWrite_Stale(statType, statValue) ==
    [statType |-> statType, statValue |-> statValue - 1]

StatWrite(statType, statValue) == [statType |-> statType, statValue |-> statValue]

\* the protocol_stats table after the calls of writes, in their order:
\* INSERT OR REPLACE, or nothing when the write fails
RECURSIVE SaveProtocolStatsToDB(_, _)
SaveProtocolStatsToDB(rows, writes) ==
    IF dbFailing \/ writes = <<>> THEN rows
    ELSE SaveProtocolStatsToDB(MapSet(rows, Head(writes).statType,
                                      Head(writes).statValue), Tail(writes))

\* no statistics response yet
NoStats == [status |-> 0, stats |-> StatsCache(0, 0, 0, 0, 0, 0, 0)]

\* a response of the given status that carries no statistics
StatusOnly(status) == [NoStats EXCEPT !.status = status]

\* switch (type) of POST /api/stats/notify: the counter of the type, NULL
\* for the default branch
StatTypeOf(type) ==
    CASE type = "message" -> "totalMessages"
      [] type = "group" -> "totalGroups"
      [] type = "tokenRoom" -> "totalTokenRooms"
      [] type = "publicRoom" -> "totalPublicRooms"
      [] type = "conversation" -> "totalConversations"
      [] OTHER -> NULL

\* POST /api/stats/notify
StatsNotify(type) ==
    /\ LET statType == StatTypeOf(type)
       IN  IF statType = NULL
           THEN /\ lastStats' = StatusOnly(400)
                /\ statWrites' = <<>>
                /\ UNCHANGED <<protocolStatsCache, dbStats>>
           ELSE LET cache == Bumped(protocolStatsCache, statType)
                    writes == <<StatWrite(statType, StatOf(cache, statType))>>
                IN  /\ protocolStatsCache' = [cache EXCEPT !.lastUpdated = now]
                    /\ statWrites' = writes
                    /\ dbStats' = SaveProtocolStatsToDB(dbStats, writes)
                    /\ lastStats' = StatusOnly(200)
    /\ UNCHANGED refresh
    /\ UNCHANGED queueVars
    /\ UNCHANGED outsideStats

\* the queues after queueNotificationForUser(userPub, notification)
Queued(queues, userPub, notification) ==
    IF ~Truthy(userPub) THEN queues
    ELSE PushNotification(queues, userPub, notification, now)

\* the ghosts of the queues after the handler has called
\* queueNotificationForUser for the users of pushes, in that order
QueueGhostsAfter(pushes) ==
    /\ enqueued' = enqueued + Len(pushes)
    /\ sinceDrain' = [p \in Pubs |->
           sinceDrain[p] + Cardinality({i \in DOMAIN pushes : pushes[i] = p})]
    /\ lastDrain' = NoDrain
    /\ UNCHANGED maxDelivered

\* the data of a stats_updated notification
StatsUpdatedData(cache) ==
    [totalMessages |-> cache.totalMessages,
     totalConversations |-> cache.totalConversations,
     totalContacts |-> cache.totalContacts,
     lastUpdated |-> cache.lastUpdated]

\* a timestamp of the caller, and none
NumTimestamp == [num |-> TRUE, val |-> 5]

NoTimestamp == [num |-> FALSE, val |-> 0]

\* a notification as the webhooks build it
Notification(type, data, timestamp) ==
    [type |-> type, data |-> [def |-> TRUE, val |-> data], timestamp |-> timestamp]

\* typeof x === "string" ? x : null, on the values of the model
StringOrNull(x) == x

\* POST /api/notify/message
NotifyMessage(userPub, messageData, timestamp) ==
    IF ~Truthy(userPub) \/ ~messageData.given
    THEN /\ lastStats' = StatusOnly(400)
         /\ statWrites' = <<>>
         /\ UNCHANGED <<protocolStatsCache, dbStats, refresh>>
         /\ UNCHANGED queueVars
         /\ UNCHANGED outsideStats
    ELSE LET eventTimestamp == [num |-> TRUE,
                                val |-> IF timestamp.num THEN timestamp.val ELSE now]
             recipientPub == StringOrNull(messageData.recipientPub)
             senderPub == StringOrNull(messageData.senderPub)
             toRecipient ==
                 Notification("cache_updated",
                     [event |-> "message", messageId |-> messageData.messageId,
                      senderPub |-> IF Truthy(senderPub) THEN senderPub ELSE userPub,
                      recipientPub |-> recipientPub],
                     eventTimestamp)
             toUser ==
                 Notification("cache_updated",
                     [event |-> "message", messageId |-> messageData.messageId,
                      senderPub |-> userPub,
                      recipientPub |-> IF Truthy(recipientPub) THEN recipientPub
                                       ELSE senderPub],
                     eventTimestamp)
             q1 == IF Truthy(recipientPub)
                   THEN Queued(userNotificationQueues, recipientPub, toRecipient)
                   ELSE userNotificationQueues
             q2 == Queued(q1, userPub, toUser)
             cache == [Bumped(protocolStatsCache, "totalMessages")
                          EXCEPT !.lastUpdated = now]
             writes == <<StatWrite("totalMessages", cache.totalMessages)>>
             statsUpdated == Notification("stats_updated", StatsUpdatedData(cache),
                                          NoTimestamp)
         IN  /\ protocolStatsCache' = cache
             /\ statWrites' = writes
             /\ dbStats' = SaveProtocolStatsToDB(dbStats, writes)
             /\ userNotificationQueues' = Queued(q2, userPub, statsUpdated)
             /\ QueueGhostsAfter((IF Truthy(recipientPub) THEN <<recipientPub>>
                                  ELSE <<>>) \o <<userPub, userPub>>)
             /\ lastStats' = StatusOnly(200)
             /\ UNCHANGED refresh
             /\ UNCHANGED outsideStats

\* POST /api/notify/conversation
NotifyConversation(userPub, conversationData, timestamp) ==
    IF ~Truthy(userPub) \/ ~conversationData.given
    THEN /\ lastStats' = StatusOnly(400)
         /\ statWrites' = <<>>
         /\ UNCHANGED <<protocolStatsCache, dbStats, refresh>>
         /\ UNCHANGED queueVars
         /\ UNCHANGED outsideStats
    ELSE LET eventTimestamp == [num |-> TRUE,
                                val |-> IF timestamp.num THEN timestamp.val ELSE now]
             contactPub == StringOrNull(conversationData.contactPub)
             toContact ==
                 Notification("cache_updated",
                     [event |-> "conversation", initiatorPub |-> userPub,
                      contactPub |-> contactPub,
                      contactName |-> conversationData.contactName],
                     eventTimestamp)
             toUser ==
                 Notification("cache_updated",
                     [event |-> "conversation", initiatorPub |-> userPub,
                      contactPub |-> IF Truthy(contactPub) THEN contactPub ELSE userPub,
                      contactName |-> conversationData.contactName],
                     eventTimestamp)
             notified == Truthy(contactPub) /\ contactPub # userPub
             q1 == IF notified
                   THEN Queued(userNotificationQueues, contactPub, toContact)
                   ELSE userNotificationQueues
             q2 == Queued(q1, userPub, toUser)
             cache == [Bumped(protocolStatsCache, "totalConversations")
                          EXCEPT !.lastUpdated = now]
             writes == <<StatWrite("totalConversations", cache.totalConversations)>>
             statsUpdated == Notification("stats_updated", StatsUpdatedData(cache),
                                          NoTimestamp)
         IN  /\ protocolStatsCache' = cache
             /\ statWrites' = writes
             /\ dbStats' = SaveProtocolStatsToDB(dbStats, writes)
             /\ userNotificationQueues' = Queued(q2, userPub, statsUpdated)
             /\ QueueGhostsAfter((IF notified THEN <<contactPub>> ELSE <<>>)
                                 \o <<userPub, userPub>>)
             /\ lastStats' = StatusOnly(200)
             /\ UNCHANGED refresh
             /\ UNCHANGED outsideStats

\* the stats of the response of GET /api/stats/protocol
StatsResponse_Recounted(cache) == StatsCache(0, 0, 0, 0, 0, Len(usernameIndex), now)

StatsResponse(cache) ==
    [cache EXCEPT !.totalContacts = Len(usernameIndex), !.lastUpdated = now]

\* GET /api/stats/protocol
GetStatsProtocol ==
    /\ lastStats' = [status |-> 200, stats |-> StatsResponse(protocolStatsCache)]
    /\ statWrites' = <<>>
    /\ UNCHANGED <<protocolStatsCache, dbStats, refresh>>
    /\ UNCHANGED queueVars
    /\ UNCHANGED outsideStats

\* the saveProtocolStatToDB calls of the periodic save
PeriodicWrites(cache) ==
    <<StatWrite("totalMessages", cache.totalMessages),
      StatWrite("totalGroups", cache.totalGroups),
      StatWrite("totalTokenRooms", cache.totalTokenRooms),
      StatWrite("totalPublicRooms", cache.totalPublicRooms),
      StatWrite("totalConversations", cache.totalConversations)>>

\* the callback of setInterval(..., 5 * 60 * 1000) in startServer, when due
StatsInterval ==
    /\ statWrites' = PeriodicWrites(protocolStatsCache)
    /\ dbStats' = SaveProtocolStatsToDB(dbStats, statWrites')
    /\ UNCHANGED <<protocolStatsCache, lastStats, refresh>>
    /\ UNCHANGED queueVars
    /\ UNCHANGED outsideStats

----------------------------------------------------------------------------
(* getProtocolStatisticsFromGunDB: the promise, the variables of its        *)
(* closure, the callbacks of the five collection reads and the timer.       *)
(* gun.get(c).map().once(cb) calls cb once for every item of collection c,  *)
(* with the key of the item, a non-empty string.                            *)

totalChecks == 5

StatsTimeoutMs == 5000

Collections == {"conversations", "groups", "tokenRooms", "publicRooms", "users"}

\* the counters of the closure
Counts(messages, groups, tokenRooms, publicRooms, conversations) ==
    [totalMessages |-> messages, totalGroups |-> groups,
     totalTokenRooms |-> tokenRooms, totalPublicRooms |-> publicRooms,
     totalConversations |-> conversations]

\* no getProtocolStatisticsFromGunDB call yet.  called counts the callbacks
\* of each collection, resolvedBy tells what settled the promise.
NoRefresh ==
    [pc |-> "idle", counts |-> Counts(0, 0, 0, 0, 0), completed |-> 0,
     called |-> [c \in Collections |-> 0], deadline |-> NoTime,
     timerFired |-> FALSE, result |-> Counts(0, 0, 0, 0, 0),
     resolvedBy |-> NULL, resolvedAt |-> NoTime]

\* resolve(...): settles the promise when it is pending, and is ignored
\* otherwise
Resolve(r, by) ==
    IF r.pc # "pending" THEN r
    ELSE [r EXCEPT !.pc = "resolved", !.result = r.counts,
                   !.resolvedBy = by, !.resolvedAt = now]

\* the body of new Promise(...): the reads are subscribed, the timer is set
StartRefresh ==
    /\ refresh.pc = "idle"
    /\ now + StatsTimeoutMs <= MaxTime
    /\ refresh' = [NoRefresh EXCEPT !.pc = "pending",
                                    !.deadline = now + StatsTimeoutMs]
    /\ UNCHANGED <<protocolStatsCache, dbStats, statWrites, lastStats>>
    /\ UNCHANGED queueVars
    /\ UNCHANGED outsideStats

\* checkComplete()
CheckComplete(r) ==
    LET counted == [r EXCEPT !.completed = @ + 1]
    IN  IF counted.completed >= totalChecks THEN Resolve(counted, "reads")
        ELSE counted

\* a callback of collection c that leaves the counters at counts
Once(c, counts) ==
    /\ refresh.pc # "idle"
    /\ refresh.completed < MaxCallbacks
    /\ refresh' = CheckComplete([refresh EXCEPT !.counts = counts,
                                                !.called[c] = @ + 1])
    /\ UNCHANGED <<protocolStatsCache, dbStats, statWrites, lastStats>>
    /\ UNCHANGED queueVars
    /\ UNCHANGED outsideStats

\* the callback of gun.get("conversations").map().once: messages is the
\* number of keys of conversationData.messages, 0 when there is no such
\* object
ConversationsOnce(messages) ==
    Once("conversations",
         [refresh.counts EXCEPT !.totalMessages = @ + messages,
                                !.totalConversations = @ + 1])

GroupsOnce == Once("groups", [refresh.counts EXCEPT !.totalGroups = @ + 1])

TokenRoomsOnce == Once("tokenRooms", [refresh.counts EXCEPT !.totalTokenRooms = @ + 1])

PublicRoomsOnce ==
    Once("publicRooms", [refresh.counts EXCEPT !.totalPublicRooms = @ + 1])

\* the callback of gun.get("users").map().once: conversations is the number
\* of keys of userData.conversations, 0 when there is no such object
UsersOnce(conversations) ==
    Once("users", [refresh.counts EXCEPT !.totalConversations = @ + conversations])

\* no call has been settled by its timer yet
NoPartial == [given |-> FALSE, result |-> Counts(0, 0, 0, 0, 0)]

\* getProtocolStatisticsFromGunDB() called again, the promise of the call
\* before being settled and its timer spent: a new promise and a new closure
CallAgain ==
    /\ refresh.pc = "resolved" /\ refresh.timerFired
    /\ now + StatsTimeoutMs <= MaxTime
    /\ refresh' = [NoRefresh EXCEPT !.pc = "pending",
                                    !.deadline = now + StatsTimeoutMs]
    /\ partialResult' = IF refresh.resolvedBy = "timer"
                        THEN [given |-> TRUE, result |-> refresh.result]
                        ELSE partialResult
    /\ UNCHANGED <<protocolStatsCache, dbStats, statWrites, lastStats>>
    /\ UNCHANGED queueVars
    /\ UNCHANGED <<registryVars, presenceVars, lastSearch, pendingLoads>>

\* the settled promise after the timer: if (completed < totalChecks) resolve
TimedOut_Hangs(r) == r

TimedOut(r) == IF r.completed < totalChecks THEN Resolve(r, "timer") ELSE r

\* the callback of setTimeout(..., 5000)
RefreshTimeout ==
    /\ refresh.pc # "idle"
    /\ ~refresh.timerFired
    /\ now = refresh.deadline
    /\ refresh' = [TimedOut(refresh) EXCEPT !.timerFired = TRUE]
    /\ UNCHANGED <<protocolStatsCache, dbStats, statWrites, lastStats>>
    /\ UNCHANGED queueVars
    /\ UNCHANGED outsideStats

----------------------------------------------------------------------------
(* GET /api/search/:username.  Fuse.js is a library: of fuseIndex.search    *)
(* the model keeps that an item whose username or displayName equals the    *)
(* pattern, letter case apart, is a match of the best score, the username   *)
(* weighing more, and that the matches come best first; which other items   *)
(* match, and in what order, is an input.                                   *)

NoSearch ==
    [status |-> 0, query |-> NULL, limit |-> NaNLimit, exact |-> FALSE,
     results |-> <<>>]

\* the elements of a set of numbers in ascending order
RECURSIVE Ascending(_)
Ascending(S) ==
    IF S = {} THEN <<>>
    ELSE LET m == CHOOSE i \in S : \A j \in S : i <= j
         IN  <<m>> \o Ascending(S \ {m})

\* the indices of the items that equal the pattern on the username
ByUsername(items, pattern) ==
    {i \in DOMAIN items : ToLowerCase(items[i].username) = ToLowerCase(pattern)}

\* the indices of the items that equal the pattern on the displayName only
ByDisplayName(items, pattern) ==
    {i \in DOMAIN items : ToLowerCase(items[i].displayName) = ToLowerCase(pattern)}
        \ ByUsername(items, pattern)

\* the orders in which items that do not equal the pattern may match it
FuzzyOrders(items, pattern) ==
    LET others == DOMAIN items
                      \ (ByUsername(items, pattern) \cup ByDisplayName(items, pattern))
    IN  {f \in UNION {[1..n -> others] : n \in 0..MaxFuzzy} :
            \A i, j \in DOMAIN f : i # j => f[i] # f[j]}

\* fuseIndex.search(pattern).map((r) => r.item)
FuseSearch(items, pattern, fuzzy) ==
    LET order == Ascending(ByUsername(items, pattern))
                     \o Ascending(ByDisplayName(items, pattern)) \o fuzzy
    IN  [i \in DOMAIN order |-> items[order[i]]]

\* Number(limit) on the query strings of the model
ToNumber(limitParam) ==
    CASE limitParam = "" -> NumLimit(0)
      [] limitParam = "0" -> NumLimit(0)
      [] limitParam = "1" -> NumLimit(1)
      [] limitParam = "2" -> NumLimit(2)
      [] OTHER -> NaNLimit

\* const { limit = CONFIG.MAX_USERNAME_RESULTS } = req.query, as a number
SearchLimit(limitParam) ==
    IF limitParam = NULL THEN NumLimit(MAX_USERNAME_RESULTS) ELSE ToNumber(limitParam)

\* array.slice(0, remaining) for a remaining above 0
Slice(array, remaining) ==
    IF Len(array) > remaining THEN SubSeq(array, 1, remaining) ELSE array

\* a result as the response shows it
SearchResult(r) ==
    [username |-> r.username, displayName |-> r.displayName, pub |-> r.pub,
     epub |-> r.epub, lastSeen |-> r.lastSeen]

Search(username, limitParam, fuzzy) ==
    /\ fuzzy \in FuzzyOrders(fuseIndex.items, username)
    /\ LET limit == SearchLimit(limitParam)
           key == ToLowerCase(username)
           exact == MapHas(usernameIndex, key)
           exactMatch == IF exact THEN <<MapGet(usernameIndex, key)>> ELSE <<>>
           results ==
               IF fuseIndex.built /\ limit.kind = "number" /\ Len(exactMatch) < limit.val
               THEN exactMatch
                        \o Slice(FuseSearch(fuseIndex.items, username, fuzzy),
                                 limit.val - Len(exactMatch))
               ELSE exactMatch
       IN  lastSearch' =
               IF Len(results) > 0
               THEN [status |-> 200, query |-> username, limit |-> limit,
                     exact |-> exact,
                     results |-> [i \in DOMAIN results |-> SearchResult(results[i])]]
               ELSE [status |-> 404, query |-> username, limit |-> limit,
                     exact |-> exact, results |-> <<>>]
    /\ UNCHANGED <<registryVars, queueVars, presenceVars, statsVars>>

----------------------------------------------------------------------------
(* Restart: a new process starts with empty memory and initDatabase loads   *)
(* the two tables (loadUsernamesFromDB, loadProtocolStatsFromDB)            *)

\* no db.all callback is outstanding
NoLoads == [usernames |-> [pending |-> FALSE, rows |-> <<>>],
            stats |-> [pending |-> FALSE, rows |-> <<>>]]

\* the record loadUsernamesFromDB builds from a row; it sets no userPub
LoadedRecord(row, t) ==
    UserData(row.user_pub, row.username,
             IF Truthy(row.display_name) THEN row.display_name ELSE row.username,
             NULL, row.user_pub, row.epub,
             IF row.last_seen # NoTime THEN row.last_seen ELSE t)

\* usernameIndex after rows.forEach of loadUsernamesFromDB, rows in rowid order
RECURSIVE LoadUsernamesFromDB(_, _)
LoadUsernamesFromDB(rows, t) ==
    IF rows = <<>> THEN <<>>
    ELSE LET last == rows[Len(rows)]
         IN  MapSet(LoadUsernamesFromDB(SubSeq(rows, 1, Len(rows) - 1), t),
                    ToLowerCase(last.username), LoadedRecord(last, t))

\* row.stat_value || 0 of the row of statType, 0 without such a row
LoadedStat(rows, statType) == IF MapHas(rows, statType) THEN MapGet(rows, statType) ELSE 0

\* protocolStatsCache after loadProtocolStatsFromDB
LoadProtocolStatsFromDB(rows, t) ==
    StatsCache(LoadedStat(rows, "totalMessages"), LoadedStat(rows, "totalGroups"),
               LoadedStat(rows, "totalTokenRooms"), LoadedStat(rows, "totalPublicRooms"),
               LoadedStat(rows, "totalConversations"), 0, t)

Restart ==
    /\ task = Idle
    /\ usernameIndex' = IF dbFailing THEN <<>> ELSE LoadUsernamesFromDB(dbUsernames, now)
    /\ fuseIndex' = IF dbFailing THEN [built |-> FALSE, items |-> <<>>]
                    ELSE RebuildFuseIndex(usernameIndex')
    /\ rebuilds' = IF dbFailing THEN rebuilds ELSE rebuilds + 1
    /\ lastRebuildAt' = IF dbFailing THEN lastRebuildAt ELSE now
    /\ lastSyncTime' = 0
    /\ lastOp' = Op("restart", NULL, NULL, NULL, 0, NULL, "none")
    /\ protocolStatsCache' = IF dbFailing THEN StatsCache(0, 0, 0, 0, 0, 0, now)
                             ELSE LoadProtocolStatsFromDB(dbStats, now)
    /\ userNotificationQueues' = <<>>
    /\ enqueued' = 0
    /\ lastDrain' = NoDrain
    /\ maxDelivered' = 0
    /\ sinceDrain' = [p \in Pubs |-> 0]
    /\ sockets' = [id \in SocketIds |-> "new"]
    /\ onlineUsers' = <<>>
    /\ roomPresence' = <<>>
    /\ putBy' = [id \in SocketIds |-> {}]
    /\ joinedAs' = [id \in SocketIds |-> {}]
    /\ emitted' = <<>>
    /\ statWrites' = <<>>
    /\ lastStats' = NoStats
    /\ refresh' = NoRefresh
    /\ lastSearch' = NoSearch
    /\ partialResult' = NoPartial
    /\ pendingLoads' = NoLoads
    /\ UNCHANGED <<now, dbUsernames, dbStats, dbFailing, task, mirrorWrites>>

(* The same start with the answers of SQLite still to come.  initDatabase   *)
(* queues the two SELECTs through db.all and resolves at once; startServer  *)
(* goes on to start the listeners and the HTTP server, and each db.all      *)
(* callback runs when SQLite answers, with the rows the table held when     *)
(* the SELECT was queued.                                                   *)
Boot ==
    /\ task = Idle
    /\ usernameIndex' = <<>>
    /\ fuseIndex' = [built |-> FALSE, items |-> <<>>]
    /\ lastSyncTime' = 0
    /\ lastOp' = Op("boot", NULL, NULL, NULL, 0, NULL, "none")
    /\ protocolStatsCache' = StatsCache(0, 0, 0, 0, 0, 0, now)
    /\ userNotificationQueues' = <<>>
    /\ enqueued' = 0
    /\ lastDrain' = NoDrain
    /\ maxDelivered' = 0
    /\ sinceDrain' = [p \in Pubs |-> 0]
    /\ sockets' = [id \in SocketIds |-> "new"]
    /\ onlineUsers' = <<>>
    /\ roomPresence' = <<>>
    /\ putBy' = [id \in SocketIds |-> {}]
    /\ joinedAs' = [id \in SocketIds |-> {}]
    /\ emitted' = <<>>
    /\ statWrites' = <<>>
    /\ lastStats' = NoStats
    /\ refresh' = NoRefresh
    /\ lastSearch' = NoSearch
    /\ partialResult' = NoPartial
    /\ pendingLoads' = [usernames |-> [pending |-> TRUE, rows |-> dbUsernames],
                        stats |-> [pending |-> TRUE, rows |-> dbStats]]
    /\ UNCHANGED <<now, dbUsernames, dbStats, dbFailing, task, mirrorWrites,
                   rebuilds, lastRebuildAt>>

\* the db.all callback of loadUsernamesFromDB
LoadUsernamesCallback ==
    /\ pendingLoads.usernames.pending
    /\ pendingLoads' = [pendingLoads EXCEPT !.usernames = NoLoads.usernames]
    /\ IF dbFailing
       THEN UNCHANGED <<usernameIndex, fuseIndex, rebuilds, lastRebuildAt>>
       ELSE /\ usernameIndex' = LoadUsernamesFromDB(pendingLoads.usernames.rows, now)
            /\ fuseIndex' = RebuildFuseIndex(usernameIndex')
            /\ rebuilds' = rebuilds + 1
            /\ lastRebuildAt' = now
    /\ UNCHANGED <<now, lastSyncTime, dbUsernames, task, mirrorWrites, lastOp, dbFailing>>
    /\ UNCHANGED <<queueVars, presenceVars, lastSearch>>
    /\ UNCHANGED <<protocolStatsCache, dbStats, statWrites, lastStats, refresh,
                   partialResult>>

\* the db.all callback of loadProtocolStatsFromDB
LoadStatsCallback ==
    /\ pendingLoads.stats.pending
    /\ pendingLoads' = [pendingLoads EXCEPT !.stats = NoLoads.stats]
    /\ protocolStatsCache' = IF dbFailing THEN protocolStatsCache
                             ELSE LoadProtocolStatsFromDB(pendingLoads.stats.rows, now)
    /\ UNCHANGED <<dbStats, statWrites, lastStats, refresh, partialResult>>
    /\ UNCHANGED <<registryVars, queueVars, presenceVars, lastSearch>>

----------------------------------------------------------------------------
(* The registry: feed listeners and POST /api/register *)

Init ==
    /\ now = StartTime
    /\ usernameIndex = <<>>
    /\ fuseIndex = [built |-> FALSE, items |-> <<>>]
    /\ lastSyncTime = 0
    /\ dbUsernames = <<>>
    /\ dbFailing = FALSE
    /\ task = Idle
    /\ rebuilds = 0
    /\ mirrorWrites = 0
    /\ lastRebuildAt = -1
    /\ lastOp = Op("start", NULL, NULL, NULL, 0, NULL, "none")
    /\ userNotificationQueues = <<>>
    /\ enqueued = 0
    /\ lastDrain = NoDrain
    /\ maxDelivered = 0
    /\ sinceDrain = [p \in Pubs |-> 0]
    /\ sockets = [id \in SocketIds |-> "new"]
    /\ onlineUsers = <<>>
    /\ roomPresence = <<>>
    /\ putBy = [id \in SocketIds |-> {}]
    /\ joinedAs = [id \in SocketIds |-> {}]
    /\ emitted = <<>>
    /\ protocolStatsCache = StatsCache(0, 0, 0, 0, 0, 0, now)
    /\ dbStats = <<>>
    /\ statWrites = <<>>
    /\ lastStats = NoStats
    /\ refresh = NoRefresh
    /\ lastSearch = NoSearch
    /\ partialResult = NoPartial
    /\ pendingLoads = NoLoads

\* the names the usernames, ~@ and users nodes of the feed carry
FeedUsernames == {"al", "bo"}

\* the alias values the feed delivers for username
AliasDatas(username) ==
    {<<"~", p>> : p \in Pubs \cup {"short"}} \cup {<<"~@", username, p>> : p \in Pubs}

\* the nodes gun.get("users").map() delivers under the key userId
UsersDatas(userId) ==
    [alias : FeedUsernames \cup {NULL}, displayName : {NULL}, pub : {NULL, userId},
     lastSeen : {NoTime, StartTime - DayInMs}]

EpubDatas == Epubs \cup {NULL, "short"}

FeedNext ==
    \/ \E p \in Pubs, u \in FeedUsernames : UsernamesEvent(p, u)
    \/ \E d \in ActivityDatas, o \in BOOLEAN : UsernamesActivity(d, o)
    \/ \E p \in Pubs, u \in FeedUsernames, e \in Epubs \cup {NULL}, o \in BOOLEAN :
          UsernamesEpub(p, u, e, o)
    \/ \E u \in FeedUsernames : \E a \in AliasDatas(u) : AliasEvent(a, u)
    \/ \E u \in FeedUsernames, e \in Epubs \cup {NULL}, o \in BOOLEAN :
          \E a \in AliasDatas(u) : AliasEpub(a, u, e, o)
    \/ \E id \in Pubs : \E d \in UsersDatas(id) : UsersEvent(d, id)
    \/ \E id \in Pubs, e \in Epubs \cup {NULL}, o \in BOOLEAN :
          \E d \in UsersDatas(id) : UsersEpub(d, id, e, o)
    \/ \E p \in Pubs \cup {NULL}, u \in Usernames : DisplayNameEvent([userPub |-> p], u)
    \/ \E p \in Pubs, e \in EpubDatas : EpubEvent(p, e)

AdminNext ==
    \E u \in Usernames \cup {NULL}, p \in Pubs \cup {NULL} : Register(u, NULL, p)

Next == FeedNext \/ AdminNext \/ Tick

Spec == Init /\ [][Next]_vars

----------------------------------------------------------------------------
(* The notification queue of one user under a long run of pushes: the nth  *)
(* push carries the number n as its data                                    *)

QueueUsers == {"pubK1-0123456789"}

DrainLimits == {NoLimit, NumLimit(0), NumLimit(2)}

QueueNext ==
    \/ /\ enqueued < MaxEnqueues
       /\ \E u \in QueueUsers :
            QueueNotificationForUser(u,
                [type |-> "cache_updated",
                 data |-> [def |-> TRUE, val |-> enqueued + 1],
                 timestamp |-> [num |-> FALSE, val |-> 0]])
    \/ \E u \in QueueUsers, l \in DrainLimits : GetAndClearNotificationsForUser(u, l)

SpecQueue == Init /\ [][QueueNext]_vars

----------------------------------------------------------------------------
(* The notification queues of two users under a few pushes of every kind,  *)
(* read through GET /api/notifications and by direct calls                  *)

\* pushes in one behaviour
MaxNotifications == 3

NotifyUsers == Pubs

\* a numeric notification.timestamp, and one that is no number
\* the notifications pushed, the nth with data n: of a known kind with a
\* timestamp, of a known kind without one, of an unknown kind, with neither
\* a kind nor data
Notifications(n) ==
    {[type |-> "cache_updated", data |-> [def |-> TRUE, val |-> n],
      timestamp |-> NumTimestamp],
     [type |-> "stats_updated", data |-> [def |-> TRUE, val |-> n],
      timestamp |-> NoTimestamp],
     [type |-> "message", data |-> [def |-> TRUE, val |-> n],
      timestamp |-> NumTimestamp],
     [type |-> NULL, data |-> [def |-> FALSE, val |-> 0],
      timestamp |-> NoTimestamp]}

\* req.query.limit: missing, empty, not a number, not positive, positive
LimitParams == {NULL, "", "abc", "0", "-1", "2", "2x", "7"}

\* limit as a caller of getAndClearNotificationsForUser may pass it
FunctionLimits == {NoLimit, NaNLimit, NumLimit(0), NumLimit(-1), NumLimit(1)}

NotifyNext ==
    \/ /\ enqueued < MaxNotifications
       /\ \E u \in NotifyUsers \cup {NULL} : \E n \in Notifications(enqueued + 1) :
            QueueNotificationForUser(u, n)
    \/ \E u \in NotifyUsers \cup {NULL}, lp \in LimitParams : GetNotifications(u, lp)
    \/ \E u \in NotifyUsers, l \in FunctionLimits : GetAndClearNotificationsForUser(u, l)

SpecNotify == Init /\ [][NotifyNext]_vars

----------------------------------------------------------------------------
(* Presence: two connections, two subjects, two rooms *)

JoinDatas == [userPub : Pubs]

\* both subjects use room r1, one of them room r2 as well
JoinRoomDatas ==
    [roomId : {"r1"}, roomType : RoomTypes, userPub : Pubs]
        \cup [roomId : {"r2", NULL}, roomType : RoomTypes, userPub : {"pubK1-0123456789"}]

LeaveRoomDatas ==
    [roomId : {"r1"}, userPub : Pubs \cup {NULL}]
        \cup [roomId : {"r2"}, userPub : {"pubK1-0123456789"}]

UpdateRoomPresenceDatas ==
    [roomId : {"r1"}, userPub : Pubs, status : {"online", "offline", "away"}]

PresenceNext ==
    \/ \E id \in SocketIds : Connection(id)
    \/ \E id \in SocketIds, d \in JoinDatas : Join(id, d)
    \/ \E id \in SocketIds, d \in JoinRoomDatas : JoinRoom(id, d)
    \/ \E id \in SocketIds, d \in LeaveRoomDatas : LeaveRoom(id, d)
    \/ \E id \in SocketIds, d \in UpdateRoomPresenceDatas : UpdateRoomPresence(id, d)
    \/ \E id \in SocketIds : Disconnect(id)

SpecPresence == Init /\ [][PresenceNext]_vars

----------------------------------------------------------------------------
(* One statistics refresh: the reads call back in any order, any number of  *)
(* times, or never; the event loop runs the timer when it is due            *)

MessageCounts == {0, 2}

ConversationCounts == {0, 1}

RefreshNext ==
    \/ StartRefresh
    \/ \E messages \in MessageCounts : ConversationsOnce(messages)
    \/ GroupsOnce
    \/ TokenRoomsOnce
    \/ PublicRoomsOnce
    \/ \E conversations \in ConversationCounts : UsersOnce(conversations)
    \/ RefreshTimeout
    \/ Tick

SpecRefresh ==
    Init /\ [][RefreshNext]_vars /\ WF_vars(Tick) /\ WF_vars(RefreshTimeout)

----------------------------------------------------------------------------
(* The statistics handlers *)

StatsEventTypes == {"message", "group", "tokenRoom", "publicRoom", "conversation",
                    "contact"}

NoBody == [given |-> FALSE, messageId |-> NULL, senderPub |-> NULL,
           recipientPub |-> NULL]

MessageDatas ==
    {NoBody}
        \cup {[given |-> TRUE, messageId |-> "m1", senderPub |-> s, recipientPub |-> r] :
                 s \in {NULL}, r \in Pubs \cup {NULL}}
        \cup {[given |-> TRUE, messageId |-> "m2", senderPub |-> "pubK2-0123456789",
               recipientPub |-> "pubK1-0123456789"]}

NoConversation == [given |-> FALSE, contactPub |-> NULL, contactName |-> NULL]

ConversationDatas ==
    {NoConversation}
        \cup {[given |-> TRUE, contactPub |-> c, contactName |-> "bob"] :
                 c \in Pubs \cup {NULL}}

StatsUsers == {NULL, "pubK1-0123456789"}

StatsNext ==
    \/ /\ Bumps(protocolStatsCache) < MaxBumps
       /\ \/ \E type \in StatsEventTypes : StatsNotify(type)
          \/ \E userPub \in StatsUsers, messageData \in MessageDatas,
                timestamp \in {NumTimestamp, NoTimestamp} :
                NotifyMessage(userPub, messageData, timestamp)
          \/ \E userPub \in StatsUsers, conversationData \in ConversationDatas,
                timestamp \in {NoTimestamp} :
                NotifyConversation(userPub, conversationData, timestamp)
    \/ GetStatsProtocol
    \/ StatsInterval
    \/ Tick

SpecStats == Init /\ [][StatsNext]_vars

----------------------------------------------------------------------------
(* Search over an index that POST /api/register fills *)

SearchQueries == Usernames

SearchLimits == {NULL, "0", "1", "abc"}

SearchNext ==
    \/ \E username \in Usernames, pub \in Pubs : Register(username, NULL, pub)
    \/ \E username \in SearchQueries, limitParam \in SearchLimits :
          \E fuzzy \in FuzzyOrders(fuseIndex.items, username) :
             Search(username, limitParam, fuzzy)
    \/ Tick

SpecSearch == Init /\ [][SearchNext]_vars

----------------------------------------------------------------------------
(* The admin writes, well-formed and malformed: POST /api/register and the  *)
(* two webhooks                                                             *)

AdminUsernames == {NULL, "", "al", "bo"}

AdminPubs == {NULL, "", "pubK1-0123456789"}

AdminMessages ==
    {NoBody,
     [given |-> TRUE, messageId |-> "m1", senderPub |-> NULL,
      recipientPub |-> "pubK2-0123456789"]}

AdminConversations ==
    {NoConversation,
     [given |-> TRUE, contactPub |-> "pubK2-0123456789", contactName |-> "bob"]}

AdminWritesNext ==
    \/ \E username \in AdminUsernames, pub \in AdminPubs : Register(username, NULL, pub)
    \/ /\ Bumps(protocolStatsCache) < MaxBumps
       /\ \/ \E userPub \in AdminPubs, messageData \in AdminMessages :
                NotifyMessage(userPub, messageData, NoTimestamp)
          \/ \E userPub \in AdminPubs, conversationData \in AdminConversations :
                NotifyConversation(userPub, conversationData, NoTimestamp)
    \/ Tick

SpecAdminWrites == Init /\ [][AdminWritesNext]_vars

----------------------------------------------------------------------------
(* Writes to the index and to the counters while SQLite fails and recovers *)

MirrorNext ==
    \/ \E failing \in BOOLEAN : SetDbFailing(failing)
    \/ \E username \in {"al", "bo"} : Register(username, NULL, "pubK1-0123456789")
    \/ DisplayNameEvent([userPub |-> "pubK2-0123456789"], "bo")
    \/ /\ Bumps(protocolStatsCache) < MaxBumps
       /\ StatsNotify("message")
    \/ Tick

SpecMirror == Init /\ [][MirrorNext]_vars

----------------------------------------------------------------------------
(* Registrations, renames and restarts of one subject *)

RestartNext ==
    \/ \E username \in {"al", "bo"} : Register(username, NULL, "pubK1-0123456789")
    \/ \E type \in {"message"} : Bumps(protocolStatsCache) < MaxBumps /\ StatsNotify(type)
    \/ rebuilds < MaxRebuilds /\ Restart
    \/ Tick

SpecRestart == Init /\ [][RestartNext]_vars

----------------------------------------------------------------------------
(* The feed of one subject over several cooldowns: names through the alias  *)
(* and displayNames listeners, keys through the epub listener               *)

Subject == "pubK1-0123456789"

SubjectAliases(username) == {<<"~", Subject>>, <<"~@", username, Subject>>}

SubjectFeedNext ==
    \/ \E username \in FeedUsernames : DisplayNameEvent([userPub |-> Subject], username)
    \/ \E username \in FeedUsernames :
          \E aliasData \in SubjectAliases(username) : AliasEvent(aliasData, username)
    \/ \E username \in FeedUsernames, epub \in Epubs \cup {NULL}, timedOut \in BOOLEAN :
          \E aliasData \in SubjectAliases(username) :
             AliasEpub(aliasData, username, epub, timedOut)
    \/ \E epubData \in EpubDatas : EpubEvent(Subject, epubData)
    \/ TickToDeadline
    \/ CooldownPasses

SpecSubjectFeed == Init /\ [][SubjectFeedNext]_vars

----------------------------------------------------------------------------
(* The epub of one registered subject arriving from the feed, with the      *)
(* clock and the five-minute interval of startServer running on their own.  *)
(* The feed calls a listener when the value changes; nothing obliges it to  *)
(* deliver a value a second time.                                           *)

CoalesceNext ==
    \/ \E username \in {"al", "bo"} : Register(username, NULL, Subject)
    \/ \E epubData \in EpubDatas : EpubEvent(Subject, epubData)
    \/ \E type \in {"message"} : Bumps(protocolStatsCache) < MaxBumps /\ StatsNotify(type)
    \/ StatsInterval
    \/ CooldownPasses

SpecCoalesce ==
    Init /\ [][CoalesceNext]_vars /\ WF_vars(CooldownPasses) /\ WF_vars(StatsInterval)

----------------------------------------------------------------------------
(* The point reads of the usernames and users listeners for one subject,    *)
(* followed to their timers.  An event is taken up while the clock leaves   *)
(* room for the timers of its reads.  setTimeout calls its callback: the    *)
(* clock reaches a pending timer and the timer fires.                       *)

\* the timer of the pending read fires
TimerFires ==
    \/ \E data \in ActivityDatas : UsernamesActivity(data, TRUE)
    \/ \E username \in FeedUsernames : UsernamesEpub(Subject, username, NULL, TRUE)
    \/ \E userData \in UsersDatas(Subject) : UsersEpub(userData, Subject, NULL, TRUE)

\* the feed answers the pending read
FeedAnswers ==
    \/ \E data \in ActivityDatas : UsernamesActivity(data, FALSE)
    \/ \E username \in FeedUsernames, epub \in Epubs \cup {NULL} :
          UsernamesEpub(Subject, username, epub, FALSE)
    \/ \E userData \in UsersDatas(Subject), epub \in Epubs \cup {NULL} :
          UsersEpub(userData, Subject, epub, FALSE)

ReadsNext ==
    \/ \E username \in FeedUsernames :
          now + TickMs <= MaxTime /\ UsernamesEvent(Subject, username)
    \/ \E userData \in UsersDatas(Subject) :
          now + TickMs <= MaxTime /\ UsersEvent(userData, Subject)
    \/ FeedAnswers
    \/ TimerFires
    \/ Tick
    \/ TickToDeadline

SpecReads ==
    Init /\ [][ReadsNext]_vars /\ WF_vars(TickToDeadline) /\ WF_vars(TimerFires)

----------------------------------------------------------------------------
(* getProtocolStatisticsFromGunDB called time after time over a feed whose  *)
(* items carry no messages and no conversations                             *)

RefreshAgainNext ==
    \/ StartRefresh
    \/ CallAgain
    \/ ConversationsOnce(0)
    \/ GroupsOnce
    \/ TokenRoomsOnce
    \/ PublicRoomsOnce
    \/ UsersOnce(0)
    \/ RefreshTimeout
    \/ Tick

SpecRefreshAgain == Init /\ [][RefreshAgainNext]_vars

----------------------------------------------------------------------------
(* Starts of the process with the tables of earlier runs, registrations and *)
(* statistics events arriving while SQLite has not answered yet             *)

StartupNext ==
    \/ \E username \in {"al", "bo"} : Register(username, NULL, Subject)
    \/ \E type \in {"message"} : Bumps(protocolStatsCache) < MaxBumps /\ StatsNotify(type)
    \/ rebuilds < MaxRebuilds /\ Boot
    \/ LoadUsernamesCallback
    \/ LoadStatsCallback
    \/ Tick

SpecStartup == Init /\ [][StartupNext]_vars

----------------------------------------------------------------------------
(* The queues of two subjects side by side *)

PairNotifications(n) == {x \in Notifications(n) : x.type = "cache_updated"}

PairLimits == {NoLimit, NumLimit(1)}

PairLimitParams == {NULL, "2"}

QueuePairNext ==
    \/ /\ enqueued < MaxNotifications
       /\ \E userPub \in NotifyUsers : \E notification \in PairNotifications(enqueued + 1) :
             QueueNotificationForUser(userPub, notification)
    \/ \E userPub \in NotifyUsers, limit \in PairLimits :
          GetAndClearNotificationsForUser(userPub, limit)
    \/ \E userPub \in NotifyUsers, limitParam \in PairLimitParams :
          GetNotifications(userPub, limitParam)

SpecQueuePair == Init /\ [][QueuePairNext]_vars

----------------------------------------------------------------------------
(* Properties of the registry *)

\* the entries of idx that belong to the subject key K
RecordsOf(idx, K) == {i \in DOMAIN idx : idx[i].val.userPub = K}

\* the Record Store holds a record for the subject key K
Known(idx, K) == RecordsOf(idx, K) # {}

\* the last handler that ran was a POST /api/register of p under username
\* that answered success
JustRegistered(p, username) ==
    /\ lastOp.route = "register"
    /\ lastOp.status = 200
    /\ lastOp.pub = p
    /\ lastOp.username = username

\* C1: when POST /api/register of K under one name has answered success and
\* the next request registers K under a name with another searchKey, however
\* much later, the Record Store afterwards holds exactly one record of K, at
\* the new searchKey, and no entry at the old searchKey.
C1_RenameReachability ==
    [][\A K \in Pubs, old \in Usernames, new \in Usernames :
         (/\ JustRegistered(K, old)
          /\ ToLowerCase(old) # ToLowerCase(new)
          /\ Register(new, NULL, K))
         => /\ Cardinality(RecordsOf(usernameIndex', K)) = 1
            /\ MapHas(usernameIndex', ToLowerCase(new))
            /\ MapGet(usernameIndex', ToLowerCase(new)).userPub = K
            /\ ~MapHas(usernameIndex', ToLowerCase(old))]_vars

\* C2: when the record of K at its old searchKey carries an epub and POST
\* /api/register stores K under another searchKey, the record stored under
\* the new searchKey carries the epub of the superseded record.
C2_RenameKeepsEpub ==
    [][\A K \in Pubs, new \in Usernames :
         LET i == OldUsernameIndex(usernameIndex, K, new)
         IN  (/\ i # 0
              /\ usernameIndex[i].val.epub # NULL
              /\ Register(new, NULL, K)
              /\ MapHas(usernameIndex', ToLowerCase(new))
              /\ MapGet(usernameIndex', ToLowerCase(new)).userPub = K)
             => MapGet(usernameIndex', ToLowerCase(new)).epub
                    = usernameIndex[i].val.epub]_vars

\* C3: every POST /api/register that answers success has upserted the record
\* into the Record Store, rebuilt the fuzzy index and issued the mirror write,
\* however recently lastSyncTime was set.
C3_AdminBypassesCooldown ==
    [][\A K \in Pubs, username \in Usernames :
         (Register(username, NULL, K) /\ lastOp'.status = 200)
         => /\ MapHas(usernameIndex', ToLowerCase(username))
            /\ MapGet(usernameIndex', ToLowerCase(username)).userPub = K
            /\ fuseIndex' = RebuildFuseIndex(usernameIndex')
            /\ rebuilds' = rebuilds + 1
            /\ mirrorWrites' = mirrorWrites + 1]_vars

\* the index with the lastSeen of every record blanked
WithoutLastSeen(idx) ==
    [i \in DOMAIN idx |-> [idx[i] EXCEPT !.val.lastSeen = NoTime]]

\* C4: applying the same registration a second time in a row leaves the
\* Record Store with one record of that key, at that searchKey, and equal,
\* apart from lastSeen, to the store after the first application.
C4_RegisterIdempotent ==
    [][\A K \in Pubs, username \in Usernames :
         (JustRegistered(K, username) /\ Register(username, NULL, K))
         => /\ Cardinality(RecordsOf(usernameIndex', K)) = 1
            /\ MapHas(usernameIndex', ToLowerCase(username))
            /\ MapGet(usernameIndex', ToLowerCase(username)).userPub = K
            /\ WithoutLastSeen(usernameIndex') = WithoutLastSeen(usernameIndex)]_vars

\* the activity timestamp lastSeen is present and less than 24 hours old
PresentAndLive(lastSeen) == lastSeen # NoTime /\ IsLive(now, lastSeen)

\* a listener comes to the end of its handler on an event whose activity
\* timestamp is missing or 24 hours old: the ~@, displayNames and epub events
\* carry none
StaleFeedEvent ==
    \/ \E d \in ActivityDatas, o \in BOOLEAN :
          /\ ~(d.exists /\ PresentAndLive(d.lastSeen))
          /\ UsernamesActivity(d, o)
    \/ \E u \in FeedUsernames, e \in Epubs \cup {NULL}, o \in BOOLEAN :
          \E a \in AliasDatas(u) : AliasEpub(a, u, e, o)
    \/ \E id \in Pubs, e \in Epubs \cup {NULL}, o \in BOOLEAN :
          \E d \in UsersDatas(id) :
             /\ ~PresentAndLive(d.lastSeen)
             /\ UsersEpub(d, id, e, o)
    \/ \E K \in Pubs, u \in Usernames : DisplayNameEvent([userPub |-> K], u)
    \/ \E K \in Pubs, e \in EpubDatas : EpubEvent(K, e)

\* C5: a feed event, on any listener, whose activity timestamp is missing or
\* not less than 24 hours old leaves the Record Store, the fuzzy index and
\* the mirror unchanged.
C5_LivenessFilter ==
    [][StaleFeedEvent
       => UNCHANGED <<usernameIndex, fuseIndex, dbUsernames, mirrorWrites>>]_vars

\* C6: every full downstream sync is one fuzzy index rebuild and one mirror
\* write, and it comes at least SYNC_COOLDOWN after the sync before it; an
\* event that arrives inside the cooldown window causes neither.
C6_CooldownCoalescing ==
    [][(rebuilds' # rebuilds \/ mirrorWrites' # mirrorWrites)
       => /\ rebuilds' = rebuilds + 1
          /\ mirrorWrites' = mirrorWrites + 1
          /\ lastRebuildAt' = now
          /\ lastRebuildAt = -1 \/ now - lastRebuildAt >= SYNC_COOLDOWN]_vars

\* C6, its case: a feed event for the key of the one record, which a feed
\* event has written, has come inside the cooldown window of that write, and
\* there has been one rebuild and one mirror write
C6_SecondEventInsideWindow ==
    /\ lastOp.route = "feed"
    /\ lastOp.outcome = "cooldown"
    /\ Len(usernameIndex) = 1
    /\ usernameIndex[1].val.pub = NULL
    /\ lastOp.pub = usernameIndex[1].val.userPub
    /\ now - lastRebuildAt < SYNC_COOLDOWN
    /\ rebuilds = 1
    /\ mirrorWrites = 1

\* C7: no step of a feed listener takes the Record Store from holding a
\* record of the subject key K to holding none.
C7_NoFeedKnownToUnknown ==
    [][FeedNext
       => \A K \in Pubs : Known(usernameIndex, K) => Known(usernameIndex', K)]_vars

\* C8: the Record Store holds at most one record per subject key.
C8_OneRecordPerSubject ==
    \A K \in Pubs : Cardinality(RecordsOf(usernameIndex, K)) <= 1

----------------------------------------------------------------------------
(* Properties of the notification queues *)

\* the queue of userPub; none yet reads as empty
QueueOf(userPub) ==
    IF MapHas(userNotificationQueues, userPub)
    THEN MapGet(userNotificationQueues, userPub)
    ELSE <<>>

\* C9: no queue is longer than MAX_NOTIFICATIONS_PER_USER, and after n pushes
\* onto the queue of a user since the user's last drain the queue holds the
\* most recent min(n, MAX_NOTIFICATIONS_PER_USER) of them, in the order they
\* were pushed.
C9_QueueBoundAndOrder ==
    /\ \A i \in DOMAIN userNotificationQueues :
          Len(userNotificationQueues[i].val) <= MAX_NOTIFICATIONS_PER_USER
    /\ \A u \in QueueUsers :
          LET k == IF sinceDrain[u] < MAX_NOTIFICATIONS_PER_USER
                   THEN sinceDrain[u] ELSE MAX_NOTIFICATIONS_PER_USER
          IN  /\ Len(QueueOf(u)) = k
              /\ \A j \in 1..k : QueueOf(u)[j].data = enqueued - k + j

\* C9, its case: MaxEnqueues pushes without a drain, more than the cap, have
\* left a queue of exactly the cap
C9_QueueTrimmed ==
    \E u \in QueueUsers :
        /\ sinceDrain[u] = MaxEnqueues
        /\ sinceDrain[u] > MAX_NOTIFICATIONS_PER_USER
        /\ Len(QueueOf(u)) = MAX_NOTIFICATIONS_PER_USER
        /\ QueueOf(u)[1].data = MaxEnqueues - MAX_NOTIFICATIONS_PER_USER + 1

\* C10: a drain returns what the queue held (all of it when no limit is
\* given, its end otherwise) and leaves the queue empty; nothing a drain
\* returns has been returned by a drain before, nothing still queued has been
\* returned, and a drain that follows a drain of the same user with no push
\* in between returns the empty list.
C10_DrainAtMostOnce ==
    /\ [](\A u \in QueueUsers :
            /\ \A j \in 1..Len(QueueOf(u)) : QueueOf(u)[j].data > maxDelivered
            /\ lastDrain.user = u => QueueOf(u) = <<>>)
    /\ [][\A u \in QueueUsers, l \in DrainLimits :
            GetAndClearNotificationsForUser(u, l)
            => /\ lastDrain'.user = u
               /\ \E k \in 0..Len(QueueOf(u)) :
                     lastDrain'.items
                         = SubSeq(QueueOf(u), k + 1, Len(QueueOf(u)))
               /\ l = NoLimit => lastDrain'.items = QueueOf(u)
               /\ \A j \in 1..Len(lastDrain'.items) :
                     lastDrain'.items[j].data > maxDelivered
               /\ lastDrain.user = u => lastDrain'.items = <<>>]_vars

\* C10, its case: a drain has returned the empty list although notifications
\* were pushed, all drained before it
C10_SecondDrainEmpty ==
    /\ lastDrain.user \in QueueUsers
    /\ lastDrain.items = <<>>
    /\ enqueued > 0
    /\ maxDelivered = enqueued

\* the drain of u with the limit K returns what C11 says of the queue it finds
DrainsAsLimited(u, K) ==
    LET queue == QueueOf(u)
        items == lastDrain'.items
    IN  /\ QueueOf(u)' = <<>>
        /\ IF K.kind = "number" /\ K.val > 0 /\ K.val < Len(queue)
           THEN /\ Len(items) = K.val
                /\ \A j \in 1..K.val : items[j] = queue[Len(queue) - K.val + j]
           ELSE items = queue

\* C11: a drain with a positive limit K smaller than the queue returns the
\* last K items in queue order, a drain with a missing, non-numeric or
\* non-positive limit returns the whole queue, and either leaves the queue
\* empty; through GET /api/notifications the limit is what parseInt makes of
\* the query string.
C11_DrainWithLimit ==
    [][/\ \A u \in NotifyUsers, lp \in LimitParams :
            GetNotifications(u, lp) => DrainsAsLimited(u, ParsedLimit(lp))
       /\ \A u \in NotifyUsers, l \in FunctionLimits :
            GetAndClearNotificationsForUser(u, l) => DrainsAsLimited(u, l)]_vars

\* C11, its case: a drain with limit 2 has found three items, returned two
\* and left the queue empty
C11_OlderItemsDiscarded ==
    /\ lastDrain.user \in NotifyUsers
    /\ lastDrain.limit = "2"
    /\ lastDrain.held = 3
    /\ Len(lastDrain.items) = 2
    /\ QueueOf(lastDrain.user) = <<>>

\* C12: every stored item has one of the three kinds and a numeric
\* timestamp; a push stores the kind it is given if that is one of the
\* three and system_alert otherwise, and the timestamp it is given if that
\* is a number and the current time otherwise.
C12_EnqueueNormalization ==
    /\ [](\A i \in DOMAIN userNotificationQueues :
            \A j \in DOMAIN userNotificationQueues[i].val :
               /\ userNotificationQueues[i].val[j].type \in NOTIFICATION_TYPES
               /\ userNotificationQueues[i].val[j].timestamp \in Nat)
    /\ [][\A u \in NotifyUsers : \A n \in Notifications(enqueued + 1) :
            QueueNotificationForUser(u, n)
            => LET stored == QueueOf(u)'[Len(QueueOf(u)')]
               IN  /\ stored.type = IF n.type \in NOTIFICATION_TYPES
                                    THEN n.type ELSE "system_alert"
                   /\ stored.timestamp = IF n.timestamp.num
                                         THEN n.timestamp.val ELSE now]_vars

\* C12, its case: a queue holds an item pushed with an unknown kind and a
\* numeric timestamp, and an item pushed without a timestamp
C12_NormalizedItems ==
    \E u \in NotifyUsers :
        /\ \E j \in DOMAIN QueueOf(u) :
              /\ QueueOf(u)[j].type = "system_alert"
              /\ QueueOf(u)[j].timestamp = NumTimestamp.val
        /\ \E j \in DOMAIN QueueOf(u) :
              /\ QueueOf(u)[j].type = "stats_updated"
              /\ QueueOf(u)[j].timestamp = now

----------------------------------------------------------------------------
(* Properties of presence *)

\* the keys of a Map
KeysOf(m) == {m[i].key : i \in DOMAIN m}

\* C13: for every room the member set is a subset of the key set of the
\* room's lastSeen map.
C13_PresenceConsistency ==
    \A i \in DOMAIN roomPresence :
        roomPresence[i].val.users \subseteq KeysOf(roomPresence[i].val.lastSeen)

\* C13, its case: after a disconnect a room has members, and its lastSeen
\* map also has the key of a subject that is no member any more
C13_MembersAndLeavers ==
    /\ \E id \in SocketIds : sockets[id] = "closed"
    /\ \E i \in DOMAIN roomPresence :
          /\ roomPresence[i].val.users # {}
          /\ roomPresence[i].val.users # KeysOf(roomPresence[i].val.lastSeen)

\* C14: when a connection disconnects, every subject this connection put
\* into a room is afterwards in the member set of no room and is reported
\* offline.
C14_DisconnectCleanup ==
    [][\A id \in SocketIds :
         Disconnect(id)
         => \A m \in putBy[id] :
               /\ \A i \in DOMAIN roomPresence' :
                     m[2] \notin roomPresence'[i].val.users
               /\ ~IsUserOnline(m[2])']_vars

----------------------------------------------------------------------------
(* Properties of the statistics refresh *)

\* the result is zero for what only collections that never called back
\* count
ZeroWhereSilent(r) ==
    /\ r.called["conversations"] = 0 => r.result.totalMessages = 0
    /\ r.called["conversations"] = 0 /\ r.called["users"] = 0
           => r.result.totalConversations = 0
    /\ r.called["groups"] = 0 => r.result.totalGroups = 0
    /\ r.called["tokenRooms"] = 0 => r.result.totalTokenRooms = 0
    /\ r.called["publicRooms"] = 0 => r.result.totalPublicRooms = 0

\* C15: a statistics refresh always terminates.  The promise of
\* getProtocolStatisticsFromGunDB is settled once the 5 s timer has fired and
\* is never pending after the deadline; a pending promise is eventually
\* settled however few reads call back; once settled, its result, and what
\* settled it, never change, whatever calls back later; and when the timer
\* settles it, the result is the counts accumulated so far, zero for every
\* collection that has not reported.
C15_RefreshTerminates ==
    /\ [](refresh.timerFired => refresh.pc = "resolved")
    /\ [](refresh.pc = "pending" => now <= refresh.deadline)
    /\ [][refresh.pc = "resolved"
            => /\ refresh'.pc = "resolved"
               /\ refresh'.result = refresh.result
               /\ refresh'.resolvedBy = refresh.resolvedBy
               /\ refresh'.resolvedAt = refresh.resolvedAt]_vars
    /\ [][RefreshTimeout /\ refresh.pc = "pending"
            => /\ refresh'.pc = "resolved"
               /\ refresh'.result = refresh.counts
               /\ ZeroWhereSilent(refresh')]_vars
    /\ (refresh.pc = "pending" ~> refresh.pc = "resolved")

\* C15 witness: the timer settled the promise with the messages of a
\* conversation counted while the groups never reported, and the fifth
\* callback came after that
C15_TimedOutPartial ==
    /\ refresh.resolvedBy = "timer"
    /\ refresh.called["groups"] = 0
    /\ refresh.result.totalMessages = 2
    /\ refresh.result.totalGroups = 0
    /\ refresh.completed = totalChecks

\* C16: the promise of getProtocolStatisticsFromGunDB is settled before the
\* timeout, that is by the reads, only when every one of the five
\* collections (conversations, groups, tokenRooms, publicRooms, users) has
\* called back at least once.
C16_EarlyOnlyWhenAllReported ==
    refresh.resolvedBy = "reads" => \A c \in Collections : refresh.called[c] >= 1

----------------------------------------------------------------------------
(* Properties of the statistics handlers *)

\* C17: every run of the 5-minute interval callback performs a full
\* recomputation from the source feed, that is, it starts
\* getProtocolStatisticsFromGunDB, whose result then replaces the counters
\* of protocolStatsCache.
C17_IntervalRecomputes == [][StatsInterval => refresh'.pc = "pending"]_vars

\* the step is an accepted notification event that bumps counter statType
AcceptedEvent(statType) ==
    \/ \E type \in StatsEventTypes : StatsNotify(type) /\ StatTypeOf(type) = statType
    \/ /\ statType = "totalMessages"
       /\ \E userPub \in StatsUsers, messageData \in MessageDatas,
             timestamp \in {NumTimestamp, NoTimestamp} :
             /\ Truthy(userPub)
             /\ messageData.given
             /\ NotifyMessage(userPub, messageData, timestamp)
    \/ /\ statType = "totalConversations"
       /\ \E userPub \in StatsUsers, conversationData \in ConversationDatas :
             /\ Truthy(userPub)
             /\ conversationData.given
             /\ NotifyConversation(userPub, conversationData, NoTimestamp)

\* C18: an accepted notification event (POST /api/stats/notify with a known
\* type, POST /api/notify/message, POST /api/notify/conversation) raises
\* exactly one counter, the one of the event, by exactly 1, leaves every
\* other counter as it was, and issues one mirror write: that counter with
\* its new value, which the protocol_stats table then holds.
C18_IncrementalStats ==
    [][\A statType \in StatTypes :
          AcceptedEvent(statType)
              => /\ \A other \in StatTypes \cup {"totalContacts"} :
                       StatOf(protocolStatsCache', other)
                           = StatOf(protocolStatsCache, other)
                                 + (IF other = statType THEN 1 ELSE 0)
                 /\ statWrites' = <<[statType |-> statType,
                                     statValue |-> StatOf(protocolStatsCache, statType) + 1]>>
                 /\ MapHas(dbStats', statType)
                 /\ MapGet(dbStats', statType) = StatOf(protocolStatsCache', statType)
                 /\ lastStats'.status = 200]_vars

\* C18 witness: a message webhook after a group event: the second event
\* wrote totalMessages = 1 while totalGroups stayed at 1
C18_TwoCountersBumped ==
    /\ protocolStatsCache.totalGroups = 1
    /\ protocolStatsCache.totalMessages = 1
    /\ protocolStatsCache.totalConversations = 0
    /\ statWrites = <<[statType |-> "totalMessages", statValue |-> 1]>>
    /\ MapHas(dbStats, "totalGroups")
    /\ Len(userNotificationQueues) > 0

\* C19: GET /api/stats/protocol is a pure read.  It answers with the five
\* counters of the cached snapshot, starts no read of the source feed and
\* writes nothing: protocolStatsCache, lastUpdated included, the
\* protocol_stats table and the queues are as before.
C19_StatsReadIsPure ==
    [][GetStatsProtocol
         => /\ protocolStatsCache' = protocolStatsCache
            /\ refresh' = refresh
            /\ dbStats' = dbStats
            /\ statWrites' = <<>>
            /\ userNotificationQueues' = userNotificationQueues
            /\ lastStats'.status = 200
            /\ \A statType \in StatTypes :
                  StatOf(lastStats'.stats, statType)
                      = StatOf(protocolStatsCache, statType)]_vars

\* C19 witness: a response with a bumped counter, sent later than the last
\* update of the snapshot, whose lastUpdated has stayed behind
C19_ReadAfterBump ==
    /\ lastStats.status = 200
    /\ lastStats.stats.totalMessages = 1
    /\ protocolStatsCache.totalMessages = 1
    /\ lastStats.stats.lastUpdated > protocolStatsCache.lastUpdated

----------------------------------------------------------------------------
(* Properties of the search *)

\* the results of the last search that show the subject of result r
SameRecord(r) ==
    {i \in DOMAIN lastSearch.results : lastSearch.results[i].pub = r.pub}

\* C20: when the query of GET /api/search/:username has an exact searchKey
\* match in the index, the result list has that record first and only once,
\* whatever else matches; with a single registered user, a search for its
\* name returns exactly one result.
C20_ExactFirstOnce ==
    lastSearch.status = 200 /\ lastSearch.exact
        => /\ ToLowerCase(lastSearch.results[1].username) = ToLowerCase(lastSearch.query)
           /\ Cardinality(SameRecord(lastSearch.results[1])) = 1
           /\ Len(usernameIndex) = 1 => Len(lastSearch.results) = 1

\* C21: whatever the query and the limit of the caller, GET
\* /api/search/:username returns at most limit results.
C21_AtMostLimit ==
    lastSearch.status = 200 /\ lastSearch.limit.kind = "number"
        => Len(lastSearch.results) <= lastSearch.limit.val

----------------------------------------------------------------------------
(* Properties of the admin writes *)

\* a required string that is missing or empty
Missing(v) == v \in {NULL, ""}

\* the step is a POST /api/register without username or without pub
MalformedRegister ==
    \E username \in AdminUsernames, pub \in AdminPubs :
       /\ Missing(username) \/ Missing(pub)
       /\ Register(username, NULL, pub)

\* the step is a webhook call without userPub or without the data object
MalformedWebhook ==
    \/ \E userPub \in AdminPubs, messageData \in AdminMessages :
          /\ Missing(userPub) \/ ~messageData.given
          /\ NotifyMessage(userPub, messageData, NoTimestamp)
    \/ \E userPub \in AdminPubs, conversationData \in AdminConversations :
          /\ Missing(userPub) \/ ~conversationData.given
          /\ NotifyConversation(userPub, conversationData, NoTimestamp)

\* C22: malformed admin input mutates nothing.  POST /api/register without
\* username or pub, and POST /api/notify/message or /api/notify/conversation
\* without userPub or the data object, answer 400 and leave the Record Store,
\* the fuzzy index, lastSyncTime, the mirror, every notification queue and
\* every statistics counter as they were.
C22_MalformedMutatesNothing ==
    [][(MalformedRegister => lastOp'.status = 400)
       /\ (MalformedWebhook => lastStats'.status = 400)
       /\ (MalformedRegister \/ MalformedWebhook
             => UNCHANGED <<usernameIndex, fuseIndex, lastSyncTime, dbUsernames,
                            userNotificationQueues, protocolStatsCache, dbStats>>)]_vars

\* C22 witness: both kinds of malformed request were answered 400 while the
\* index, a queue and a counter were filled
C22_RejectedOnFilledState ==
    /\ lastOp.status = 400
    /\ lastStats.status = 400
    /\ Len(usernameIndex) = 1
    /\ Len(userNotificationQueues) > 0
    /\ protocolStatsCache.totalMessages = 1

----------------------------------------------------------------------------
(* Properties of the mirror *)

\* the last handler called addUsernameToIndex outside the cooldown, and the
\* record of pub is now in the index under the searchKey of username, with
\* the fuzzy index rebuilt from the index and one mirror write issued
Applied(pub, username) ==
    lastOp'.outcome = "synced"
        => /\ MapHas(usernameIndex', ToLowerCase(username))
           /\ MapGet(usernameIndex', ToLowerCase(username)).userPub = pub
           /\ fuseIndex'.items = MapValues(usernameIndex')
           /\ mirrorWrites' = mirrorWrites + 1

RoomChanged(roomId) ==
    /\ MapHas(roomPresence', roomId)
    /\ MapHas(roomPresence, roomId)
           => MapGet(roomPresence', roomId) # MapGet(roomPresence, roomId)

\* message msg shows the room it is about as the room stands
FullSnapshot(msg) ==
    /\ MapHas(roomPresence, msg.roomId)
    /\ LET room == MapGet(roomPresence, msg.roomId)
       IN  /\ msg.userPubs = room.users
           /\ msg.lastSeen = room.lastSeen
           /\ msg.onlineCount = Cardinality(room.users)

\* C24: presence broadcasts carry the full room snapshot.  Every joinRoom,
\* leaveRoom, updateRoomPresence and disconnect that changes a room emits a
\* roomPresence message for that room, and every roomPresence message of
\* the last handler has as userPubs the members of its room after the
\* change, as lastSeen the whole lastSeen map of the room after the change,
\* and as onlineCount the number of those members.
C24_FullRoomSnapshot ==
    /\ [](\A n \in DOMAIN emitted :
             emitted[n].event = "roomPresence" => FullSnapshot(emitted[n]))
    /\ [][\A roomId \in RoomIds :
             RoomChanged(roomId)
                 => \E n \in DOMAIN emitted' :
                       /\ emitted'[n].event = "roomPresence"
                       /\ emitted'[n].roomId = roomId]_vars

\* C24 witness: a disconnect took its subject out of two rooms and emitted
\* a message for each, the first for a room where another member stays and
\* both have a lastSeen entry
C24_DisconnectSnapshots ==
    /\ Len(emitted) = 3
    /\ emitted[1].event = "roomPresence"
    /\ emitted[2].event = "roomPresence"
    /\ emitted[3].event = "userPresence"
    /\ emitted[1].onlineCount = 1
    /\ Len(emitted[1].lastSeen) = 2

----------------------------------------------------------------------------
(* Properties of the downstream sync *)

\* the records of a sequence of records
Records(items) == {items[i] : i \in DOMAIN items}

\* C25: whenever no handler is in the middle of executing, the records held
\* by the fuzzy index are the records of the Record Store.
C25_FuseIndexConsistent ==
    task = Idle => Records(fuseIndex.items) = Records(MapValues(usernameIndex))

\* the rows of the mirror for subject K under searchKey key
RowsOf(rows, K, key) ==
    {i \in DOMAIN rows : rows[i].user_pub = K /\ ToLowerCase(rows[i].username) = key}

\* the entries of idx whose record shows subject K
ShownAs(idx, K) == {i \in DOMAIN idx : idx[i].val.pub = K}

\* C26: once a rename of subject K from searchKey A to searchKey B is
\* applied and its mirror write is done, the mirror holds no row for K under
\* A; and a restart that seeds a Record Store which held one record for K
\* yields one record for K again.
C26_MirrorFollowsRename ==
    /\ [][\A username \in {"al", "bo"} :
             /\ Register(username, NULL, "pubK1-0123456789")
             /\ lastOp'.oldUsername # NULL
             /\ lastOp'.outcome = "synced"
             => RowsOf(dbUsernames', "pubK1-0123456789", lastOp'.oldUsername) = {}]_vars
    /\ [][Restart
            => \A K \in Pubs :
                  Cardinality(ShownAs(usernameIndex, K)) = 1
                      => Cardinality(ShownAs(usernameIndex', K)) = 1]_vars

\* C27: every mutation of the Record Store comes with its downstream sync:
\* in the same handler the fuzzy index is rebuilt once, from the Record
\* Store as the mutation left it, and one mirror write is issued.
C27_MutationThenRebuildThenMirror ==
    [][usernameIndex' # usernameIndex
         => /\ rebuilds' = rebuilds + 1
            /\ fuseIndex'.items = MapValues(usernameIndex')
            /\ mirrorWrites' = mirrorWrites + 1]_vars

\* the entries of idx for subject K under another searchKey than that of
\* username
OtherKeys(idx, K, username) ==
    {i \in DOMAIN idx : idx[i].val.userPub = K /\ idx[i].key # ToLowerCase(username)}

\* C28: when the displayNames listener receives a new label for a subject
\* key that owns a different searchKey and the update is applied, exactly
\* one record for that key remains, under the new searchKey, and it has the
\* epub of the superseded record.
C28_FeedRenameKeepsEpub ==
    [][\A K \in Pubs, username \in Usernames :
          /\ DisplayNameEvent([userPub |-> K], username)
          /\ OtherKeys(usernameIndex, K, username) # {}
          /\ lastOp'.outcome = "synced"
          => /\ Cardinality(RecordsOf(usernameIndex', K)) = 1
             /\ MapHas(usernameIndex', ToLowerCase(username))
             /\ MapGet(usernameIndex', ToLowerCase(username)).userPub = K
             /\ \E i \in OtherKeys(usernameIndex, K, username) :
                   /\ ~MapHas(usernameIndex', usernameIndex[i].key)
                   /\ MapGet(usernameIndex', ToLowerCase(username)).epub
                          = usernameIndex[i].val.epub]_vars

\* C29: when the epub listener receives an epub for a subject key already in
\* the Record Store and the update is applied, the Record Store is as
\* before, the same records under the same searchKeys in the same order,
\* but for the epub and the lastSeen of the record of the subject.
C29_EpubUpdatesInPlace ==
    [][\A epubData \in EpubDatas :
          /\ EpubEvent(Subject, epubData)
          /\ lastOp'.outcome = "synced"
          => /\ Len(usernameIndex') = Len(usernameIndex)
             /\ \E i \in DOMAIN usernameIndex :
                   /\ usernameIndex[i].val.userPub = Subject
                   /\ usernameIndex'
                          = [usernameIndex EXCEPT ![i].val.epub = epubData,
                                                  ![i].val.lastSeen = now]]_vars

\* C29 witness: the record the displayNames listener made for the subject
\* has got its epub through the second sync
C29_EpubArrivedLater ==
    /\ rebuilds = 2
    /\ Len(usernameIndex) = 1
    /\ usernameIndex[1].val.pub = Subject
    /\ usernameIndex[1].val.epub \in Epubs
    /\ usernameIndex[1].val.lastSeen = now

\* every record of subject K in idx carries an epub
AllWithEpub(idx, K) == \A i \in RecordsOf(idx, K) : idx[i].val.epub # NULL

\* C30: once the record of subject key K carries an epub, no later feed
\* event or registration for K leaves a record of K with a null epub.
C30_EpubNeverLost ==
    [][\A K \in Pubs :
          Known(usernameIndex, K) /\ AllWithEpub(usernameIndex, K)
              => AllWithEpub(usernameIndex', K)]_vars

\* C31: for every searchKey, the lastSeen of the record stored there never
\* decreases.
C31_LastSeenMonotonic ==
    [][\A i \in DOMAIN usernameIndex :
          MapHas(usernameIndex', usernameIndex[i].key)
              => MapGet(usernameIndex', usernameIndex[i].key).lastSeen
                     >= usernameIndex[i].val.lastSeen]_vars

\* the epub listener's update for the subject was dropped by the cooldown
EpubDropped ==
    /\ lastOp.route = "feed" /\ lastOp.pub = Subject /\ lastOp.outcome = "cooldown"
    /\ \A i \in DOMAIN usernameIndex :
          usernameIndex[i].val.userPub = Subject => usernameIndex[i].val.epub = NULL

\* C32: an epub the feed delivered for the subject inside the cooldown, the
\* only epub the feed ever carries for it, is eventually held by the subject's
\* record.
C32_DroppedEventuallyCaptured ==
    EpubDropped ~> (\E i \in DOMAIN usernameIndex :
                       /\ usernameIndex[i].val.userPub = Subject
                       /\ usernameIndex[i].val.epub \in Epubs)

\* the handler has called addUsernameToIndex for username with epub null
AppliedWithNullEpub(username) ==
    /\ task' = Idle
    /\ lastOp'.route = "feed" /\ lastOp'.outcome # "none"
    /\ lastOp'.outcome = "synced" =>
          /\ MapHas(usernameIndex', ToLowerCase(username))
          /\ MapGet(usernameIndex', ToLowerCase(username)).epub = NULL

\* C33: every pending point read of a listener ends, no later than its timer
\* (2 s or 3 s after it began), and a handler whose epub read ended on the
\* timer goes on to addUsernameToIndex with epub null.
C33_PointReadsBounded ==
    /\ (task.pc # "idle") ~> (task.pc = "idle")
    /\ [](task.pc # "idle" =>
             /\ now <= task.deadline
             /\ task.deadline <= now + EpubReadTimeout)
    /\ [][\A username \in FeedUsernames :
             UsernamesEpub(Subject, username, NULL, TRUE)
                 => AppliedWithNullEpub(username)]_vars
    /\ [][\A userData \in UsersDatas(Subject) :
             task.pc = "epub2" /\ UsersEpub(userData, Subject, NULL, TRUE)
                 => AppliedWithNullEpub(userData.alias)]_vars

\* an epub read begun at the start lasted its three seconds and the record
\* was stored with epub null at that moment
C33_EpubReadTimedOut ==
    /\ task = Idle
    /\ now = StartTime + EpubReadTimeout
    /\ lastSyncTime = now
    /\ \E i \in DOMAIN usernameIndex :
          usernameIndex[i].val.epub = NULL /\ usernameIndex[i].val.lastSeen = now

\* every collection has called back at least once
AllReported(r) == \A c \in Collections : r.called[c] > 0

\* C34: the value of a refresh in which all five collections reported and
\* that was settled by the reads differs from the value of a refresh that was
\* settled by its timer.
C34_PartialDistinguishable ==
    /\ partialResult.given
    /\ refresh.pc = "resolved" /\ refresh.resolvedBy = "reads"
    /\ AllReported(refresh)
    => refresh.result # partialResult.result

\* C35: when a db.all callback of the startup load runs, no registration or
\* feed event has stored a record and no counter has been bumped since the
\* process started.
C35_LoadsBeforeWrites ==
    [][LoadUsernamesCallback \/ LoadStatsCallback
          => lastOp.outcome # "synced" /\ Bumps(protocolStatsCache) = 0]_vars

\* a connection that sent join for userPub is still connected
LiveConnection(userPub) ==
    \E id \in SocketIds : sockets[id] = "open" /\ userPub \in joinedAs[id]

\* C36: while a connection that sent join for a subject is still connected,
\* isUserOnline of that subject is true (no presence event with isOnline false
\* is ever sent here).
C36_OnlineWhileAnyConnection ==
    \A userPub \in Pubs : LiveConnection(userPub) => IsUserOnline(userPub)

\* the queue of userPub in queues, empty when it has none
QueueIn(queues, userPub) ==
    IF MapHas(queues, userPub) THEN MapGet(queues, userPub) ELSE <<>>

\* the notifications the step has appended to the queue of userPub
AppendedFor(userPub) ==
    SubSeq(QueueIn(userNotificationQueues', userPub),
           Len(QueueIn(userNotificationQueues, userPub)) + 1,
           Len(QueueIn(userNotificationQueues', userPub)))

\* the step has appended to the caller's queue one cache_updated and then one
\* stats_updated with the counters after the bump, and to the queue of any
\* other subject at most one cache_updated
OneFanOut(caller) ==
    /\ Len(AppendedFor(caller)) = 2
    /\ AppendedFor(caller)[1].type = "cache_updated"
    /\ AppendedFor(caller)[2].type = "stats_updated"
    /\ AppendedFor(caller)[2].data.totalMessages = protocolStatsCache'.totalMessages
    /\ AppendedFor(caller)[2].data.totalConversations
           = protocolStatsCache'.totalConversations
    /\ \A other \in Pubs \ {caller} :
          \/ AppendedFor(other) = <<>>
          \/ Len(AppendedFor(other)) = 1 /\ AppendedFor(other)[1].type = "cache_updated"

\* C37: an accepted POST /api/notify/message or /api/notify/conversation
\* appends to the caller's queue one cache_updated followed by one
\* stats_updated, and to each other subject's queue at most one cache_updated,
\* also when the recipient or the contact is the caller.
C37_FanOutPerWebhook ==
    [][/\ \A userPub \in Pubs, messageData \in MessageDatas,
             timestamp \in {NumTimestamp, NoTimestamp} :
             messageData.given /\ NotifyMessage(userPub, messageData, timestamp)
                 => OneFanOut(userPub)
       /\ \A userPub \in Pubs, conversationData \in ConversationDatas :
             /\ conversationData.given
             /\ NotifyConversation(userPub, conversationData, NoTimestamp)
             => OneFanOut(userPub)]_vars

\* the step is an enqueue or a drain on the queue of userPub
QueueOperationOn(userPub) ==
    \/ \E notification \in PairNotifications(enqueued + 1) :
          QueueNotificationForUser(userPub, notification)
    \/ \E limit \in PairLimits : GetAndClearNotificationsForUser(userPub, limit)
    \/ \E limitParam \in PairLimitParams : GetNotifications(userPub, limitParam)

\* the step is a drain for userPub
DrainOf(userPub) ==
    \/ \E limit \in PairLimits : GetAndClearNotificationsForUser(userPub, limit)
    \/ \E limitParam \in PairLimitParams : GetNotifications(userPub, limitParam)

\* C38: an enqueue or a drain on the queue of one subject leaves the queue of
\* every other subject as it was, and a drain for a subject without a queue
\* returns the empty list and creates no queue.
C38_QueuesIsolated ==
    [][\A userPub \in NotifyUsers :
          /\ QueueOperationOn(userPub) =>
                \A other \in NotifyUsers \ {userPub} :
                   /\ MapHas(userNotificationQueues', other)
                          = MapHas(userNotificationQueues, other)
                   /\ QueueIn(userNotificationQueues', other)
                          = QueueIn(userNotificationQueues, other)
          /\ DrainOf(userPub) /\ ~MapHas(userNotificationQueues, userPub) =>
                /\ lastDrain'.items = <<>>
                /\ ~MapHas(userNotificationQueues', userPub)]_vars

\* a subject without a queue has been drained while the other subject's
\* queue holds notifications
C38_DrainedWithoutQueue ==
    /\ lastDrain # NoDrain
    /\ lastDrain.user = "pubK1-0123456789"
    /\ ~MapHas(userNotificationQueues, "pubK1-0123456789")
    /\ QueueIn(userNotificationQueues, "pubK2-0123456789") # <<>>

\* C39: the totalContacts of the GET /api/stats/protocol response and of
\* every stats_updated notification a handler queues is the number of records
\* in usernameIndex at that moment.
C39_OneTotalContacts ==
    [][/\ GetStatsProtocol => lastStats'.stats.totalContacts = Len(usernameIndex')
       /\ \A userPub \in Pubs :
             \A k \in 1..Len(AppendedFor(userPub)) :
                AppendedFor(userPub)[k].type = "stats_updated"
                    => AppendedFor(userPub)[k].data.totalContacts = Len(usernameIndex')]_vars

====
